---- MODULE Spec2Model ----
(***************************************************************************)
(* A model of the grep engine of src/src/grep_engine.cpp: the pattern      *)
(* parser (parse_primary_element, parse_regex, compile_regex_to_nfa), the  *)
(* NFA arena it builds, and the simulator (add_state_with_epsilon_closure, *)
(* process_character_step, match_text_with_positions).                     *)
(*                                                                         *)
(* Bytes are integers (their ASCII codes), as in the source, where         *)
(* NFAState::character_code is an int that holds either a byte or an       *)
(* opcode above 255.  An NFA state is identified by its index in the heap  *)
(* (the order of the make_shared calls); 0 is the null pointer.            *)
(***************************************************************************)
EXTENDS Integers, Sequences, FiniteSets, TLC

----------------------------------------------------------------------------
(* Bytes *)

\* The printable ASCII characters, in code order starting at 32.
Printable ==
  << " ", "!", "\"", "#", "$", "%", "&", "'", "(", ")", "*", "+", ",", "-", ".", "/",
     "0", "1", "2", "3", "4", "5", "6", "7", "8", "9", ":", ";", "<", "=", ">", "?",
     "@", "A", "B", "C", "D", "E", "F", "G", "H", "I", "J", "K", "L", "M", "N", "O",
     "P", "Q", "R", "S", "T", "U", "V", "W", "X", "Y", "Z", "[", "\\", "]", "^", "_",
     "grave", "a", "b", "c", "d", "e", "f", "g", "h", "i", "j", "k", "l", "m", "n", "o",
     "p", "q", "r", "s", "t", "u", "v", "w", "x", "y", "z", "{", "|", "}", "~" >>

\* The code of a character.
Ord(c) == 31 + (CHOOSE i \in 1..Len(Printable) : Printable[i] = c)

\* A byte string from a tuple of characters.
Bytes(t) == [i \in 1..Len(t) |-> Ord(t[i])]

\* isdigit and isalnum of <cctype> in the "C" locale.
isdigit(c) == c \in Ord("0")..Ord("9")
isalnum(c) == isdigit(c) \/ c \in Ord("a")..Ord("z") \/ c \in Ord("A")..Ord("Z")

----------------------------------------------------------------------------
(* NFA states and opcodes *)

OPCODE_SPLIT == 256
OPCODE_MATCH_ANY == 257
OPCODE_MATCH_WORD == 258
OPCODE_MATCH_DIGIT == 259
OPCODE_MATCH_CHOICE == 260
OPCODE_MATCH_ANTI_CHOICE == 261
OPCODE_MATCH_START == 262
OPCODE_MATCH_END == 263
OPCODE_BACKREF_START == 300
OPCODE_MATCHED == 1000

\* The null shared_ptr.
NullState == 0

\* A default-constructed NFAState with its character_code set.
NFAState(code) ==
  [ character_code |-> code,
    last_list_id |-> -1,
    primary_transition |-> NullState,
    alternative_transition |-> NullState,
    character_set |-> << >>,
    capture_group_start |-> -1,
    capture_group_end |-> -1 ]

----------------------------------------------------------------------------
(* Parser.  The parser's work state is a record                            *)
(*   rest  : the string_view still to be read,                             *)
(*   heap  : the NFA states allocated so far,                              *)
(*   next_capture_group_id : the global counter,                           *)
(*   error : the what() of the runtime_error thrown, "" while none.        *)
(* A parsing function returns the work state together with the fragment    *)
(* (start_state, dangling_outputs); a dangling output is the address of a  *)
(* transition field: [state, slot].                                        *)

NoError == ""

\* throw std::runtime_error(what): the parse ends with the error recorded.
Throw_Swallowed(ps, what) ==
  [ ps |-> ps, start_state |-> NullState, dangling_outputs |-> << >> ]

Throw(ps, what) == [ ps |-> [ps EXCEPT !.error = what],
                     start_state |-> NullState,
                     dangling_outputs |-> << >> ]

Fragment(ps, start, outs) == [ ps |-> ps, start_state |-> start, dangling_outputs |-> outs ]

PrimarySlot(s) == [ state |-> s, slot |-> "primary_transition" ]
AlternativeSlot(s) == [ state |-> s, slot |-> "alternative_transition" ]

\* make_shared<NFAState>(): the new state gets the next index of the heap.
make_shared(ps, st) == [ps EXCEPT !.heap = Append(@, st)]

remove_prefix(ps) == [ps EXCEPT !.rest = Tail(@)]

\* for (auto dangling_output : outs) *dangling_output = target;
RECURSIVE PatchOutputs(_, _, _)
PatchOutputs(heap, outs, target) ==
  IF outs = << >> THEN heap
  ELSE LET o == Head(outs)
           patched == IF o.slot = "primary_transition"
                      THEN [heap EXCEPT ![o.state].primary_transition = target]
                      ELSE [heap EXCEPT ![o.state].alternative_transition = target]
       IN PatchOutputs(patched, Tail(outs), target)

\* get_precedence with concatenation binding no tighter than '|'.
get_precedence_ConcatenationLoose(operator_char) ==
  IF operator_char = Ord("]") \/ operator_char = Ord(")") THEN -1
  ELSE 0

\* The lambda get_precedence of parse_regex.
get_precedence(operator_char) ==
  IF operator_char = Ord("|") THEN 0
  ELSE IF operator_char = Ord("]") \/ operator_char = Ord(")") THEN -1
  ELSE 1

\* The while loop that reads the members of a bracket expression.
RECURSIVE BracketMembers(_, _)
BracketMembers(rest, set) ==
  IF rest # << >> /\ Head(rest) # Ord("]")
  THEN BracketMembers(Tail(rest), Append(set, Head(rest)))
  ELSE [ rest |-> rest, character_set |-> set ]

\* The quantifier switch with + wired as *: the fragment starts at the Split.
ApplyQuantifier_PlusStartsAtSplit(f) ==
  IF f.ps.error # NoError \/ f.ps.rest = << >> THEN f
  ELSE
    LET q == Head(f.ps.rest)
        split_state == Len(f.ps.heap) + 1
        withSplit == Append(f.ps.heap,
                            [NFAState(OPCODE_SPLIT) EXCEPT !.primary_transition = f.start_state])
    IN CASE q = Ord("*") ->
              Fragment([f.ps EXCEPT !.heap = PatchOutputs(withSplit, f.dangling_outputs, split_state),
                                    !.rest = Tail(@)],
                       split_state,
                       << AlternativeSlot(split_state) >>)
         [] q = Ord("+") ->
              Fragment([f.ps EXCEPT !.heap = PatchOutputs(withSplit, f.dangling_outputs, split_state),
                                    !.rest = Tail(@)],
                       split_state,
                       << AlternativeSlot(split_state) >>)
         [] q = Ord("?") ->
              Fragment([f.ps EXCEPT !.heap = withSplit, !.rest = Tail(@)],
                       split_state,
                       Append(f.dangling_outputs, AlternativeSlot(split_state)))
         [] OTHER -> f

\* The postfix quantifier switch at the end of parse_primary_element.
ApplyQuantifier(f) ==
  IF f.ps.error # NoError \/ f.ps.rest = << >> THEN f
  ELSE
    LET q == Head(f.ps.rest)
        split_state == Len(f.ps.heap) + 1
        withSplit == Append(f.ps.heap,
                            [NFAState(OPCODE_SPLIT) EXCEPT !.primary_transition = f.start_state])
    IN CASE q = Ord("*") ->
              Fragment([f.ps EXCEPT !.heap = PatchOutputs(withSplit, f.dangling_outputs, split_state),
                                    !.rest = Tail(@)],
                       split_state,
                       << AlternativeSlot(split_state) >>)
         [] q = Ord("+") ->
              Fragment([f.ps EXCEPT !.heap = PatchOutputs(withSplit, f.dangling_outputs, split_state),
                                    !.rest = Tail(@)],
                       f.start_state,
                       << AlternativeSlot(split_state) >>)
         [] q = Ord("?") ->
              Fragment([f.ps EXCEPT !.heap = withSplit, !.rest = Tail(@)],
                       split_state,
                       Append(f.dangling_outputs, AlternativeSlot(split_state)))
         [] OTHER -> f

RECURSIVE parse_primary_element(_)
RECURSIVE parse_regex(_, _, _)
RECURSIVE ParseRight(_, _)

\* A fragment made of the single state new_state, its character_code set.
SingleState_QuantifierNeedsPrimary(ps, new_state, code) ==
  IF code \in { Ord("*"), Ord("+"), Ord("?") }
  THEN [ ps |-> [ps EXCEPT !.error = "Nothing to repeat"],
         start_state |-> NullState, dangling_outputs |-> << >> ]
  ELSE [ ps |-> [ps EXCEPT !.heap[new_state].character_code = code],
         start_state |-> new_state, dangling_outputs |-> << PrimarySlot(new_state) >> ]

SingleState(ps, new_state, code) ==
  Fragment([ps EXCEPT !.heap[new_state].character_code = code],
           new_state, << PrimarySlot(new_state) >>)

\* case '\\': the escape after the backslash; ps is past the backslash.
ParseEscape(ps, new_state) ==
  IF ps.rest = << >> THEN Throw(ps, "Unexpected end of pattern after \\")
  ELSE IF Head(ps.rest) = Ord("d")
  THEN SingleState(remove_prefix(ps), new_state, OPCODE_MATCH_DIGIT)
  ELSE IF Head(ps.rest) = Ord("w")
  THEN SingleState(remove_prefix(ps), new_state, OPCODE_MATCH_WORD)
  ELSE IF isdigit(Head(ps.rest))
  THEN SingleState(remove_prefix(ps), new_state,
                   OPCODE_BACKREF_START + (Head(ps.rest) - Ord("0")))
  ELSE SingleState(remove_prefix(ps), new_state, Head(ps.rest))

\* case '[': members is what the while loop read after the optional '^'.
ParseBracket_DashNotAMember(ps, new_state, is_negated, members) ==
  IF members.rest = << >>
  THEN Throw([ps EXCEPT !.rest = members.rest], "Unclosed bracket expression")
  ELSE Fragment([ps EXCEPT !.rest = Tail(members.rest),
                           !.heap[new_state].character_code =
                              IF is_negated THEN OPCODE_MATCH_ANTI_CHOICE
                              ELSE OPCODE_MATCH_CHOICE,
                           !.heap[new_state].character_set =
                              SelectSeq(members.character_set, LAMBDA c : c # Ord("-"))],
                new_state, << PrimarySlot(new_state) >>)

ParseBracket(ps, new_state, is_negated, members) ==
  IF members.rest = << >>
  THEN Throw([ps EXCEPT !.rest = members.rest], "Unclosed bracket expression")
  ELSE Fragment([ps EXCEPT !.rest = Tail(members.rest),
                           !.heap[new_state].character_code =
                              IF is_negated THEN OPCODE_MATCH_ANTI_CHOICE
                              ELSE OPCODE_MATCH_CHOICE,
                           !.heap[new_state].character_set = members.character_set],
                new_state, << PrimarySlot(new_state) >>)

\* The group closed by a Split that carries no capture_group_end.
CloseGroup_EndUnmarked(inner_fragment, capture_start_state, current_capture_group_id) ==
  IF inner_fragment.ps.error # NoError THEN inner_fragment
  ELSE IF inner_fragment.ps.rest = << >> \/ Head(inner_fragment.ps.rest) # Ord(")")
  THEN Throw(inner_fragment.ps, "Expected ')' to close group")
  ELSE
    Fragment([inner_fragment.ps EXCEPT
                !.rest = Tail(@),
                !.heap = PatchOutputs(
                           [Append(@, NFAState(OPCODE_SPLIT))
                              EXCEPT ![capture_start_state].primary_transition =
                                        inner_fragment.start_state],
                           inner_fragment.dangling_outputs,
                           Len(@) + 1)],
             capture_start_state,
             << PrimarySlot(Len(inner_fragment.ps.heap) + 1) >>)

\* case '(': after the inner regex was parsed, the closing ')' and the
\* capture_end_state.
CloseGroup(inner_fragment, capture_start_state, current_capture_group_id) ==
  IF inner_fragment.ps.error # NoError THEN inner_fragment
  ELSE IF inner_fragment.ps.rest = << >> \/ Head(inner_fragment.ps.rest) # Ord(")")
  THEN Throw(inner_fragment.ps, "Expected ')' to close group")
  ELSE
    Fragment([inner_fragment.ps EXCEPT
                !.rest = Tail(@),
                !.heap = PatchOutputs(
                           [Append(@, [NFAState(OPCODE_SPLIT) EXCEPT
                                         !.capture_group_end = current_capture_group_id])
                              EXCEPT ![capture_start_state].primary_transition =
                                        inner_fragment.start_state],
                           inner_fragment.dangling_outputs,
                           Len(@) + 1)],
             capture_start_state,
             << PrimarySlot(Len(inner_fragment.ps.heap) + 1) >>)

\* parse_regex(regex_pattern, parse_primary_element(regex_pattern), 0)
ParseFrom(first) ==
  IF first.ps.error # NoError THEN first ELSE parse_regex(first.ps, first, 0)

\* The group numbered when its ')' is read instead of its '(': an inner
\* group gets the smaller id.
NumberAtClose(inner_fragment, capture_start_state) ==
  CloseGroup([inner_fragment EXCEPT
                !.ps.heap[capture_start_state].capture_group_start =
                   inner_fragment.ps.next_capture_group_id,
                !.ps.next_capture_group_id = @ + 1],
             capture_start_state,
             inner_fragment.ps.next_capture_group_id)

ParseGroup_NumberedAtClose(ps) ==
  NumberAtClose(
    ParseFrom(parse_primary_element(make_shared(ps, NFAState(OPCODE_SPLIT)))),
    Len(ps.heap) + 1)

\* case '(': the group id is taken, capture_start_state is allocated and
\* the inner regex is parsed.
ParseGroup(ps) ==
  CloseGroup(
    ParseFrom(parse_primary_element(
      make_shared([ps EXCEPT !.next_capture_group_id = @ + 1],
                  [NFAState(OPCODE_SPLIT) EXCEPT
                     !.capture_group_start = ps.next_capture_group_id]))),
    Len(ps.heap) + 1,
    ps.next_capture_group_id)

\* The switch on current_char of parse_primary_element, up to the
\* quantifier; ps is past current_char and holds new_state.
ParsePrimarySwitch(ps, new_state, current_char) ==
  CASE current_char = Ord(".") -> SingleState(ps, new_state, OPCODE_MATCH_ANY)
    [] current_char = Ord("^") -> SingleState(ps, new_state, OPCODE_MATCH_START)
    [] current_char = Ord("$") -> SingleState(ps, new_state, OPCODE_MATCH_END)
    [] current_char = Ord("\\") -> ParseEscape(ps, new_state)
    [] current_char = Ord("[") ->
         IF ps.rest # << >> /\ Head(ps.rest) = Ord("^")
         THEN ParseBracket(ps, new_state, TRUE, BracketMembers(Tail(ps.rest), << >>))
         ELSE ParseBracket(ps, new_state, FALSE, BracketMembers(ps.rest, << >>))
    [] current_char = Ord("(") -> ParseGroup(ps)
    [] OTHER -> SingleState(ps, new_state, current_char)

parse_primary_element(ps) ==
  IF ps.rest = << >> THEN Throw(ps, "Unexpected end of pattern")
  ELSE ApplyQuantifier(
         ParsePrimarySwitch(remove_prefix(make_shared(ps, NFAState(-1))),
                            Len(ps.heap) + 1,
                            Head(ps.rest)))

\* The inner while loop of parse_regex: while the lookahead binds tighter
\* than current_operator, the right fragment absorbs what follows.
ParseRight(right_fragment, current_operator) ==
  IF right_fragment.ps.error # NoError THEN right_fragment
  ELSE IF right_fragment.ps.rest # << >>
          /\ get_precedence(Head(right_fragment.ps.rest)) > get_precedence(current_operator)
  THEN ParseRight(parse_regex(right_fragment.ps, right_fragment,
                              get_precedence(current_operator) + 1),
                  current_operator)
  ELSE right_fragment

\* The end of an iteration of the outer while loop of parse_regex: the left
\* and right fragments are joined by a Split for '|' and chained otherwise.
JoinFragments(left_fragment, right_fragment, current_operator) ==
  IF right_fragment.ps.error # NoError THEN right_fragment
  ELSE IF current_operator = Ord("|")
  THEN Fragment([right_fragment.ps EXCEPT !.heap =
                   Append(@, [NFAState(OPCODE_SPLIT) EXCEPT
                                !.primary_transition = left_fragment.start_state,
                                !.alternative_transition = right_fragment.start_state])],
                Len(right_fragment.ps.heap) + 1,
                left_fragment.dangling_outputs \o right_fragment.dangling_outputs)
  ELSE Fragment([right_fragment.ps EXCEPT !.heap =
                   PatchOutputs(@, left_fragment.dangling_outputs, right_fragment.start_state)],
                left_fragment.start_state,
                right_fragment.dangling_outputs)

\* The outer while loop again, on the joined fragment.
ParseMore(joined, min_precedence) ==
  IF joined.ps.error # NoError THEN joined
  ELSE parse_regex(joined.ps, joined, min_precedence)

\* parse_regex(regex_pattern, left_fragment, min_precedence): one pass of the
\* outer while loop, then the loop again.
parse_regex(ps, left_fragment, min_precedence) ==
  IF ps.rest = << >> \/ get_precedence(Head(ps.rest)) < min_precedence
  THEN Fragment(ps, left_fragment.start_state, left_fragment.dangling_outputs)
  ELSE ParseMore(
         JoinFragments(
           left_fragment,
           ParseRight(parse_primary_element(IF Head(ps.rest) = Ord("|")
                                            THEN remove_prefix(ps) ELSE ps),
                      Head(ps.rest)),
           Head(ps.rest)),
         min_precedence)

\* The compiled NFA is [error, heap, start_state]; the caller sees
\* start_state only when nothing was thrown (error = NoError).
CompiledNFA(error, heap, start_state) ==
  [ error |-> error, heap |-> heap, start_state |-> start_state ]

\* The end of compile_regex_to_nfa: the check for trailing input and the
\* patching of the dangling outputs to matched_state.
FinishCompile(complete_fragment, matched_state) ==
  IF complete_fragment.ps.error # NoError
  THEN CompiledNFA(complete_fragment.ps.error, complete_fragment.ps.heap, NullState)
  ELSE IF complete_fragment.ps.rest # << >>
  THEN CompiledNFA(IF Head(complete_fragment.ps.rest) = Ord(")") THEN "Unmatched ')'"
                   ELSE IF Head(complete_fragment.ps.rest) = Ord("]") THEN "Unmatched ']'"
                   ELSE "Syntax error in regex",
                   complete_fragment.ps.heap, NullState)
  ELSE CompiledNFA(NoError,
                   PatchOutputs(complete_fragment.ps.heap,
                                complete_fragment.dangling_outputs, matched_state),
                   complete_fragment.start_state)

\* int next_capture_group_id = 1; the value of the global when the
\* program starts.
InitialGroupId == 1

\* next_capture_group_id = 1; in compile_regex_to_nfa, applied to the value
\* the global holds when the function is entered.
ResetGroupCounter_Skipped(global_id) == global_id

ResetGroupCounter(global_id) == 1

\* What a call of compile_regex_to_nfa leaves: the NFA returned (or the
\* error thrown) and the value of the global next_capture_group_id.
CompileResult(complete_fragment) ==
  [ nfa |-> FinishCompile(complete_fragment, 1),
    next_capture_group_id |-> complete_fragment.ps.next_capture_group_id ]

\* compile_regex_to_nfa entered with the global next_capture_group_id at
\* global_id; matched_state is the first state allocated.  The empty
\* pattern returns before the global is touched.
CompileWithCounter(regex_string, global_id) ==
  IF regex_string = << >>
  THEN [ nfa |-> CompiledNFA(NoError, << NFAState(OPCODE_MATCHED) >>, 1),
         next_capture_group_id |-> global_id ]
  ELSE CompileResult(
         ParseFrom(parse_primary_element(
           [ rest |-> regex_string,
             heap |-> << NFAState(OPCODE_MATCHED) >>,
             next_capture_group_id |-> ResetGroupCounter(global_id),
             error |-> NoError ])))

\* compile_regex_to_nfa as the first compilation of a process.
compile_regex_to_nfa(regex_string) ==
  CompileWithCounter(regex_string, InitialGroupId).nfa

----------------------------------------------------------------------------
(* Simulator.  A std::map is a function whose domain is the set of keys    *)
(* inserted so far; a std::vector is a sequence.                           *)

EmptyMap == << >>

\* m[k] = v of std::map (the key is inserted when absent).
MapPut(m, k, v) == [x \in (DOMAIN m) \cup {k} |-> IF x = k THEN v ELSE m[x]]

\* m[k] read through operator[]: a missing key reads as the default value.
MapGet(m, k, default) == IF k \in DOMAIN m THEN m[k] ELSE default

\* CaptureGroupInfo{}.
CaptureGroupInfo ==
  [ captured_text |-> EmptyMap,
    is_actively_capturing |-> EmptyMap,
    backreference_position |-> EmptyMap ]

\* The byte pushed to the text of every group that has one, active or not.
PushToActiveGroups_EveryGroup(capture_info, input_char) ==
  [capture_info EXCEPT !.captured_text =
     [g \in DOMAIN @ |-> Append(@[g], input_char)]]

\* for (auto& [group_id, is_active] : is_actively_capturing)
\*     if (is_active) captured_text[group_id].push_back(input_char);
PushToActiveGroups(capture_info, input_char) ==
  LET active == { g \in DOMAIN capture_info.is_actively_capturing :
                    capture_info.is_actively_capturing[g] }
  IN [capture_info EXCEPT !.captured_text =
        [g \in (DOMAIN @) \cup active |->
           IF g \in active THEN Append(MapGet(@, g, << >>), input_char) ELSE @[g]]]

has_matching_state(heap, active_states) ==
  \E k \in 1..Len(active_states) :
     heap[active_states[k].nfa_state].character_code = OPCODE_MATCHED

\* if (state_to_add->character_code == OPCODE_SPLIT): the states the closure
\* expands instead of adding them to active_states.
IsEpsilonState_AnchorEndToo(st) ==
  st.character_code = OPCODE_SPLIT \/ st.character_code = OPCODE_MATCH_END

IsEpsilonState_AnchorStartToo(st) ==
  st.character_code = OPCODE_SPLIT \/ st.character_code = OPCODE_MATCH_START

IsEpsilonState(st) == st.character_code = OPCODE_SPLIT

\* add_state_with_epsilon_closure: active_states and visited_states are the
\* two reference parameters; both are returned.
RECURSIVE add_state_with_epsilon_closure(_, _, _, _, _)
add_state_with_epsilon_closure_SplitsOnly(heap, state_to_add, capture_info, active_states, visited_states) ==
  IF state_to_add = NullState
     \/ (state_to_add \in visited_states /\ IsEpsilonState(heap[state_to_add]))
  THEN [ active_states |-> active_states, visited_states |-> visited_states ]
  ELSE
    LET st == heap[state_to_add]
        visited == visited_states \cup {state_to_add}
    IN IF IsEpsilonState(st)
       THEN LET first == add_state_with_epsilon_closure(heap, st.primary_transition,
                                                        capture_info, active_states, visited)
            IN add_state_with_epsilon_closure(heap, st.alternative_transition, capture_info,
                                              first.active_states, first.visited_states)
       ELSE [ active_states |-> Append(active_states,
                                       [ nfa_state |-> state_to_add,
                                         capture_info |-> capture_info ]),
              visited_states |-> visited ]

add_state_with_epsilon_closure(heap, state_to_add, capture_info, active_states, visited_states) ==
  IF state_to_add = NullState \/ state_to_add \in visited_states
  THEN [ active_states |-> active_states, visited_states |-> visited_states ]
  ELSE
    LET st == heap[state_to_add]
        visited == visited_states \cup {state_to_add}
        opened == IF st.capture_group_start >= 0
                  THEN [capture_info EXCEPT
                          !.captured_text = MapPut(@, st.capture_group_start, << >>),
                          !.is_actively_capturing = MapPut(@, st.capture_group_start, TRUE)]
                  ELSE capture_info
        closed == IF st.capture_group_end >= 0
                  THEN [opened EXCEPT
                          !.is_actively_capturing = MapPut(@, st.capture_group_end, FALSE)]
                  ELSE opened
    IN IF IsEpsilonState(st)
       THEN LET first == add_state_with_epsilon_closure(heap, st.primary_transition, closed,
                                                        active_states, visited)
            IN add_state_with_epsilon_closure(heap, st.alternative_transition, closed,
                                              first.active_states, first.visited_states)
       ELSE [ active_states |-> Append(active_states,
                                       [ nfa_state |-> state_to_add, capture_info |-> closed ]),
              visited_states |-> visited ]

\* initialize_active_states: the closure of start_state from empty captures.
initialize_active_states(heap, start_state) ==
  add_state_with_epsilon_closure(heap, start_state, CaptureGroupInfo, << >>, {}).active_states

\* current_position < previously_captured.size() &&
\*     previously_captured[current_position] == input_char
BackrefCharMatches_AnyChar(previously_captured, current_position, input_char) ==
  current_position < Len(previously_captured)

BackrefCharMatches(previously_captured, current_position, input_char) ==
  /\ current_position < Len(previously_captured)
  /\ previously_captured[current_position + 1] = input_char

\* The body of the for loop of process_character_step for one active state:
\* what it appends to next_states.
StepActiveState(heap, active_state, input_char, next_states) ==
  LET nfa_state == active_state.nfa_state
      st == heap[nfa_state]
      code == st.character_code
      capture_info == active_state.capture_info
      InSet == \E k \in 1..Len(st.character_set) : st.character_set[k] = input_char
      Advance(ci) ==
        add_state_with_epsilon_closure(heap, st.primary_transition, ci, next_states, {}).active_states
      Consume == Advance(PushToActiveGroups(capture_info, input_char))
      backref_group_id == code - OPCODE_BACKREF_START
  IN CASE code = OPCODE_MATCH_ANY -> Consume
       [] code = OPCODE_MATCH_DIGIT -> IF isdigit(input_char) THEN Consume ELSE next_states
       [] code = OPCODE_MATCH_WORD ->
            IF isalnum(input_char) \/ input_char = Ord("_") THEN Consume ELSE next_states
       [] code = OPCODE_MATCH_CHOICE -> IF InSet THEN Consume ELSE next_states
       [] code = OPCODE_MATCH_ANTI_CHOICE -> IF ~InSet THEN Consume ELSE next_states
       [] OTHER ->
            IF code = input_char THEN Consume
            ELSE IF code >= OPCODE_BACKREF_START
                    /\ backref_group_id \in DOMAIN capture_info.captured_text
                    /\ capture_info.captured_text[backref_group_id] # << >>
            THEN
              LET previously_captured == capture_info.captured_text[backref_group_id]
                  current_position == MapGet(capture_info.backreference_position,
                                             backref_group_id, 0)
              IN IF BackrefCharMatches(previously_captured, current_position, input_char)
                 THEN
                   \* previously_captured is a reference into capture_info: its
                   \* size is read after the byte was pushed to the active groups.
                   LET pushed == PushToActiveGroups(capture_info, input_char)
                       size == Len(pushed.captured_text[backref_group_id])
                   IN IF current_position + 1 = size
                      THEN Advance([pushed EXCEPT !.backreference_position =
                                      MapPut(@, backref_group_id, 0)])
                      ELSE Append(next_states,
                                  [ nfa_state |-> nfa_state,
                                    capture_info |->
                                      [pushed EXCEPT !.backreference_position =
                                         MapPut(@, backref_group_id, current_position + 1)] ])
                 ELSE next_states
            ELSE next_states

RECURSIVE StepActiveStates(_, _, _, _)
StepActiveStates(heap, current_states, input_char, next_states) ==
  IF current_states = << >> THEN next_states
  ELSE StepActiveStates(heap, Tail(current_states), input_char,
                        StepActiveState(heap, Head(current_states), input_char, next_states))

\* process_character_step: the next_states it leaves.
process_character_step(heap, current_states, input_char) ==
  StepActiveStates(heap, current_states, input_char, << >>)

----------------------------------------------------------------------------
(* match_text_with_positions.  The compiled NFA is passed as the record    *)
(* compile_regex_to_nfa returns (the heap and the start state pointer).    *)
(* character_index counts from 0 as in the source; input_text[i + 1] is    *)
(* the byte at index i.                                                    *)

\* The MatchInfo with its two positions exchanged.
MatchInfo_Swapped(found, start_pos, end_pos) ==
  [ found |-> found, start_pos |-> end_pos, end_pos |-> start_pos ]

MatchInfo(found, start_pos, end_pos) ==
  [ found |-> found, start_pos |-> start_pos, end_pos |-> end_pos ]

\* bool is_anchored_at_start
is_anchored_at_start(nfa) ==
  nfa.heap[nfa.start_state].character_code = OPCODE_MATCH_START

\* The seeding before the loop: a leading AnchorStart is skipped.
SeedStates_AlwaysSkipsStart(nfa) ==
  add_state_with_epsilon_closure(nfa.heap, nfa.heap[nfa.start_state].primary_transition,
                                 CaptureGroupInfo, << >>, {}).active_states

SeedStates(nfa) ==
  IF is_anchored_at_start(nfa)
  THEN add_state_with_epsilon_closure(nfa.heap, nfa.heap[nfa.start_state].primary_transition,
                                      CaptureGroupInfo, << >>, {}).active_states
  ELSE initialize_active_states(nfa.heap, nfa.start_state)

\* The end_of_string_states built when character_index == text_length.
EndOfStringStates_Unexpanded(heap, current_states, end_of_string_states) ==
  end_of_string_states \o current_states

RECURSIVE EndOfStringStates(_, _, _)
EndOfStringStates(heap, current_states, end_of_string_states) ==
  IF current_states = << >> THEN end_of_string_states
  ELSE
    LET active_state == Head(current_states)
        st == heap[active_state.nfa_state]
    IN EndOfStringStates(heap, Tail(current_states),
         IF st.character_code = OPCODE_MATCH_END
         THEN add_state_with_epsilon_closure(heap, st.primary_transition,
                                             active_state.capture_info,
                                             end_of_string_states, {}).active_states
         ELSE Append(end_of_string_states, active_state))

\* The part of the loop body run when character_index == text_length.
EndOfStringCheck_Skipped(nfa, current_states, match_start, character_index) ==
  MatchInfo(FALSE, 0, 0)

EndOfStringCheck(nfa, current_states, match_start, character_index) ==
  IF has_matching_state(nfa.heap, EndOfStringStates(nfa.heap, current_states, << >>))
  THEN MatchInfo(TRUE, match_start, character_index)
  ELSE MatchInfo(FALSE, 0, 0)

\* match_start = character_index; after a reseeding.
ReseedStart_Kept(match_start, character_index) == match_start

ReseedStart_AtNextIndex(match_start, character_index) == character_index + 1

ReseedStart(match_start, character_index) == character_index

\* The part of the loop body run on the byte at character_index < text_length.
\* returned says whether the function returned in this iteration; seeded
\* lists the indexes given to match_start by a reseeding in this iteration.
ScanCharacter(nfa, input_text, current_states, match_start, character_index) ==
  LET current_char == input_text[character_index + 1]
      anchored == is_anchored_at_start(nfa)
      Continue(cur, ms, seeded) ==
        [ returned |-> FALSE, result |-> MatchInfo(FALSE, 0, 0),
          current_states |-> cur, match_start |-> ms, seeded |-> seeded ]
      Return(cur, ms, seeded) ==
        [ returned |-> TRUE, result |-> MatchInfo(TRUE, ms, character_index + 1),
          current_states |-> cur, match_start |-> ms, seeded |-> seeded ]
      reseedBefore == current_states = << >> /\ ~anchored
      cur1 == IF reseedBefore
              THEN initialize_active_states(nfa.heap, nfa.start_state)
              ELSE current_states
      ms1 == IF reseedBefore THEN ReseedStart(match_start, character_index)
             ELSE match_start
      seeded1 == IF reseedBefore THEN << character_index >> ELSE << >>
      cur2 == IF cur1 # << >>
              THEN process_character_step(nfa.heap, cur1, current_char)
              ELSE cur1
  IN IF has_matching_state(nfa.heap, cur2) THEN Return(cur2, ms1, seeded1)
     ELSE IF cur2 = << >> /\ ~anchored
     THEN LET cur3 == initialize_active_states(nfa.heap, nfa.start_state)
              seeded3 == Append(seeded1, character_index)
              cur4 == IF cur3 # << >>
                      THEN process_character_step(nfa.heap, cur3, current_char)
                      ELSE cur3
          IN IF cur3 # << >> /\ has_matching_state(nfa.heap, cur4)
             THEN Return(cur4, ReseedStart(ms1, character_index), seeded3)
             ELSE Continue(cur4, ReseedStart(ms1, character_index), seeded3)
     ELSE Continue(cur2, ms1, seeded1)

\* The for loop of match_text_with_positions from one iteration on.
RECURSIVE MatchLoop(_, _, _, _, _)

\* The end of an iteration on a byte: it is what ScanCharacter left; the
\* function returns or the loop goes on with the next index.
MatchNext(nfa, input_text, it, character_index) ==
  IF it.returned THEN it.result
  ELSE MatchLoop(nfa, input_text, it.current_states, it.match_start, character_index + 1)

MatchLoop(nfa, input_text, current_states, match_start, character_index) ==
  IF character_index = Len(input_text)
  THEN EndOfStringCheck(nfa, current_states, match_start, character_index)
  ELSE MatchNext(nfa, input_text,
                 ScanCharacter(nfa, input_text, current_states, match_start, character_index),
                 character_index)

\* MatchInfo match_text_with_positions(nfa_start_state, input_text)
match_text_with_positions(nfa, input_text) ==
  MatchLoop(nfa, input_text, SeedStates(nfa), 0, 0)

\* int match_text_with_nfa(nfa_start_state, input_text): the compatibility wrapper.
match_text_with_nfa(nfa, input_text) ==
  IF match_text_with_positions(nfa, input_text).found THEN 1 ELSE 0

----------------------------------------------------------------------------
(* The profiling variant of the engine (the second program of              *)
(* grep_engine.cpp).  Its parser, closure and has_matching_state are those *)
(* of the first, statement for statement; its process_character_step has   *)
(* no backreference branch and its match_text_with_positions seeds once,   *)
(* from the start state, and tests for Accept before each step.            *)

\* process_character_step of the profiling variant: the for loop over
\* current_states, next_states being what it has appended so far.
RECURSIVE Profiling_process_character_step(_, _, _, _)
Profiling_process_character_step(heap, current_states, input_char, next_states) ==
  IF current_states = << >> THEN next_states
  ELSE Profiling_process_character_step(
         heap, Tail(current_states), input_char,
         IF CASE heap[Head(current_states).nfa_state].character_code = OPCODE_MATCH_ANY -> TRUE
              [] heap[Head(current_states).nfa_state].character_code = OPCODE_MATCH_DIGIT ->
                   isdigit(input_char)
              [] heap[Head(current_states).nfa_state].character_code = OPCODE_MATCH_WORD ->
                   isalnum(input_char) \/ input_char = Ord("_")
              [] heap[Head(current_states).nfa_state].character_code = OPCODE_MATCH_CHOICE ->
                   \E k \in 1..Len(heap[Head(current_states).nfa_state].character_set) :
                      heap[Head(current_states).nfa_state].character_set[k] = input_char
              [] heap[Head(current_states).nfa_state].character_code = OPCODE_MATCH_ANTI_CHOICE ->
                   ~\E k \in 1..Len(heap[Head(current_states).nfa_state].character_set) :
                       heap[Head(current_states).nfa_state].character_set[k] = input_char
              [] OTHER -> heap[Head(current_states).nfa_state].character_code = input_char
         THEN add_state_with_epsilon_closure(
                heap, heap[Head(current_states).nfa_state].primary_transition,
                PushToActiveGroups(Head(current_states).capture_info, input_char),
                next_states, {}).active_states
         ELSE next_states)

\* The for loop of match_text_with_positions of the profiling variant from
\* the iteration i on; match_start is 0 throughout.
RECURSIVE Profiling_MatchLoop(_, _, _, _)
Profiling_MatchLoop(nfa, input_text, current_states, i) ==
  IF has_matching_state(nfa.heap, current_states) THEN MatchInfo(TRUE, 0, i)
  ELSE IF i = Len(input_text) THEN MatchInfo(FALSE, 0, 0)
  ELSE Profiling_MatchLoop(
         nfa, input_text,
         Profiling_process_character_step(nfa.heap, current_states, input_text[i + 1], << >>),
         i + 1)

\* match_text_with_positions of the profiling variant.
Profiling_match_text_with_positions(nfa, input_text) ==
  Profiling_MatchLoop(nfa, input_text,
                      initialize_active_states(nfa.heap, nfa.start_state), 0)

----------------------------------------------------------------------------
(* The boolean matcher (match_text_with_nfa of the earlier program, whose  *)
(* parser, closure and process_character_step are those above, statement   *)
(* for statement): the same loop with no match_start, returning 1 or 0.    *)

\* The part of the loop body run on the byte at character_index < text_length:
\* whether the function returned 1 in it and the current_states it leaves.
Boolean_ScanCharacter(nfa, input_text, current_states, character_index) ==
  LET current_char == input_text[character_index + 1]
      anchored == is_anchored_at_start(nfa)
      cur1 == IF current_states = << >> /\ ~anchored
              THEN initialize_active_states(nfa.heap, nfa.start_state)
              ELSE current_states
      cur2 == IF cur1 # << >>
              THEN process_character_step(nfa.heap, cur1, current_char)
              ELSE cur1
  IN IF has_matching_state(nfa.heap, cur2)
     THEN [ returned |-> TRUE, current_states |-> cur2 ]
     ELSE IF cur2 = << >> /\ ~anchored
     THEN LET cur3 == initialize_active_states(nfa.heap, nfa.start_state)
              cur4 == IF cur3 # << >>
                      THEN process_character_step(nfa.heap, cur3, current_char)
                      ELSE cur3
          IN [ returned |-> cur3 # << >> /\ has_matching_state(nfa.heap, cur4),
               current_states |-> cur4 ]
     ELSE [ returned |-> FALSE, current_states |-> cur2 ]

\* The for loop of the boolean matcher from one iteration on.
RECURSIVE Boolean_MatchLoop(_, _, _, _)
Boolean_MatchNext(nfa, input_text, it, character_index) ==
  IF it.returned THEN 1
  ELSE Boolean_MatchLoop(nfa, input_text, it.current_states, character_index + 1)

Boolean_MatchLoop(nfa, input_text, current_states, character_index) ==
  IF character_index = Len(input_text)
  THEN IF has_matching_state(nfa.heap, EndOfStringStates(nfa.heap, current_states, << >>))
       THEN 1 ELSE 0
  ELSE Boolean_MatchNext(
         nfa, input_text,
         Boolean_ScanCharacter(nfa, input_text, current_states, character_index),
         character_index)

\* The boolean matcher seeded from the start state, a leading AnchorStart
\* not skipped.
Boolean_match_text_with_nfa_AnchorKept(nfa, input_text) ==
  Boolean_MatchLoop(nfa, input_text,
                    initialize_active_states(nfa.heap, nfa.start_state), 0)

\* int match_text_with_nfa(nfa_start_state, input_text) of the boolean matcher.
Boolean_match_text_with_nfa(nfa, input_text) ==
  Boolean_MatchLoop(nfa, input_text,
                    IF is_anchored_at_start(nfa)
                    THEN add_state_with_epsilon_closure(
                           nfa.heap, nfa.heap[nfa.start_state].primary_transition,
                           CaptureGroupInfo, << >>, {}).active_states
                    ELSE initialize_active_states(nfa.heap, nfa.start_state),
                    0)

----------------------------------------------------------------------------
(* main.  Arguments, lines, paths and the output are bytes; argv is the    *)
(* argument list after argv[0].  A stream is the sequence of bytes still   *)
(* to be read.                                                             *)

NewLine == 10
Escape == 27

\* const std::string COLOR_RED_BOLD = "\033[1;31m"; COLOR_RESET = "\033[0m";
COLOR_RED_BOLD == << Escape >> \o Bytes(<< "[", "1", ";", "3", "1", "m" >>)
COLOR_RESET == << Escape >> \o Bytes(<< "[", "0", "m" >>)

\* std::string::npos, the default count of substr: more than any length.
npos == 2147483647

\* a - b in size_t: a negative difference wraps to a value that is more
\* than any length.
SizeDifference(a, b) == IF a >= b THEN a - b ELSE npos

\* std::string::substr(pos, count), for pos <= size(): count is clamped to
\* what is left.
substr(s, pos, count) ==
  SubSeq(s, pos + 1, IF count > Len(s) - pos THEN Len(s) ELSE pos + count)

\* current_argument.find(prefix) == 0
StartsWith(s, prefix) ==
  Len(s) >= Len(prefix) /\ SubSeq(s, 1, Len(prefix)) = prefix

\* What print_with_color writes to std::cout.
print_with_color_Plain(line, match_info, use_color) == Append(line, NewLine)

print_with_color(line, match_info, use_color) ==
  IF ~use_color \/ ~match_info.found
  THEN Append(line, NewLine)
  ELSE substr(line, 0, match_info.start_pos)
       \o COLOR_RED_BOLD
       \o substr(line, match_info.start_pos,
                 SizeDifference(match_info.end_pos, match_info.start_pos))
       \o COLOR_RESET
       \o substr(line, match_info.end_pos, npos)
       \o << NewLine >>

\* std::getline(stream, line): fails on a stream at its end; otherwise the
\* line is what precedes the first newline, which is consumed, or all that
\* is left.
RECURSIVE UpToNewLine(_, _)
UpToNewLine(stream, line) ==
  IF stream = << >> THEN [ ok |-> TRUE, line |-> line, rest |-> << >> ]
  ELSE IF Head(stream) = NewLine THEN [ ok |-> TRUE, line |-> line, rest |-> Tail(stream) ]
  ELSE UpToNewLine(Tail(stream), Append(line, Head(stream)))

getline(stream) ==
  IF stream = << >> THEN [ ok |-> FALSE, line |-> << >>, rest |-> << >> ]
  ELSE UpToNewLine(stream, << >>)

\* The arguments main knows.
ArgE == Bytes(<< "-", "E" >>)
ArgR == Bytes(<< "-", "r" >>)
ArgColor == Bytes(<< "-", "-", "c", "o", "l", "o", "r", "=" >>)
ColorAlways == Bytes(<< "a", "l", "w", "a", "y", "s" >>)
ColorNever == Bytes(<< "n", "e", "v", "e", "r" >>)
ColorAuto == Bytes(<< "a", "u", "t", "o" >>)

\* The locals the argument loop of main sets; error is the message of the
\* return 1 inside the loop, "" if there was none.
ArgumentDefaults ==
  [ found_extended_regex_flag |-> FALSE,
    use_recursive_search |-> FALSE,
    use_color |-> TRUE,
    regex_pattern_string |-> << >>,
    target_file_paths |-> << >>,
    error |-> "" ]

\* The for loop over argv from position arg_index (1 is the first argument
\* after argv[0]).
RECURSIVE ArgumentLoop(_, _, _)
ArgumentLoop(argv, arg_index, a) ==
  IF arg_index > Len(argv) THEN a
  ELSE
    LET current_argument == argv[arg_index]
    IN IF current_argument = ArgE
       THEN IF arg_index + 1 <= Len(argv)
            THEN ArgumentLoop(argv, arg_index + 2,
                              [a EXCEPT !.found_extended_regex_flag = TRUE,
                                        !.regex_pattern_string = argv[arg_index + 1]])
            ELSE [a EXCEPT !.found_extended_regex_flag = TRUE,
                           !.error = "Error: -E requires a pattern argument"]
       ELSE IF current_argument = ArgR
       THEN ArgumentLoop(argv, arg_index + 1, [a EXCEPT !.use_recursive_search = TRUE])
       ELSE IF StartsWith(current_argument, ArgColor)
       THEN ArgumentLoop(argv, arg_index + 1,
              [a EXCEPT !.use_color =
                 LET color_option == substr(current_argument, 8, npos)
                 IN IF color_option = ColorAlways THEN TRUE
                    ELSE IF color_option = ColorNever THEN FALSE
                    ELSE IF color_option = ColorAuto THEN TRUE
                    ELSE @])
       ELSE ArgumentLoop(argv, arg_index + 1,
                         [a EXCEPT !.target_file_paths = Append(@, current_argument)])

\* The message main ends with before it compiles anything, "" if none:
\* the usage, the error of the loop, the missing -E, the empty pattern.
ArgumentError_None(argv, a) == ""

ArgumentError(argv, a) ==
  IF Len(argv) + 1 < 2 THEN "Usage"
  ELSE IF a.error # "" THEN a.error
  ELSE IF ~a.found_extended_regex_flag THEN "Error: Expected -E followed by a pattern."
  ELSE IF a.regex_pattern_string = << >> THEN "Error: Pattern cannot be empty."
  ELSE ""

\* The file system main runs in: the working directory holds the regular
\* files f and u (u cannot be opened) and the directory d, which holds the
\* regular file h.
Slash == Ord("/")
PathDot == Bytes(<< "." >>)
PathF == Bytes(<< "f" >>)
PathU == Bytes(<< "u" >>)
PathD == Bytes(<< "d" >>)
PathH == Bytes(<< "h" >>)
PathDH == PathD \o << Slash >> \o PathH

\* A path without its leading "./".
RECURSIVE Normalize(_)
Normalize(path) ==
  IF StartsWith(path, PathDot \o << Slash >>) /\ Len(path) > 2
  THEN Normalize(SubSeq(path, 3, Len(path)))
  ELSE path

is_regular_file(path) == Normalize(path) \in { PathF, PathU, PathDH }
is_directory(path) == Normalize(path) \in { PathDot, PathD }
exists(path) == is_regular_file(path) \/ is_directory(path)

\* std::ifstream::is_open() after the stream was constructed on path.
is_open(path) == Normalize(path) \in { PathF, PathDH }

\* The bytes of a regular file that can be opened.
FileBytes(path) ==
  IF Normalize(path) = PathF
  THEN Bytes(<< "a" >>) \o << NewLine >> \o Bytes(<< "x", "a", "b" >>) \o << NewLine >>
       \o Bytes(<< "b" >>) \o << NewLine >>
  ELSE Bytes(<< "b", "a" >>)

\* The entries that are not directories below a directory, as the paths
\* recursive_directory_iterator gives them.
DirectoryFiles(directory_path) ==
  IF Normalize(directory_path) = PathD
  THEN { directory_path \o << Slash >> \o PathH }
  ELSE { directory_path \o << Slash >> \o PathF,
         directory_path \o << Slash >> \o PathU,
         directory_path \o << Slash >> \o PathDH }

\* The sequences that list every element of the set S once.
Orderings(S) ==
  { o \in [1..Cardinality(S) -> S] : \A i, j \in 1..Cardinality(S) : o[i] = o[j] => i = j }

\* find_all_files_recursively(directory_path): the order in which a
\* directory is iterated is unspecified; every order is a possible result.
find_all_files_recursively(directory_path) ==
  IF ~is_directory(directory_path)
  THEN IF is_regular_file(directory_path) THEN { << directory_path >> } ELSE { << >> }
  ELSE Orderings(DirectoryFiles(directory_path))

\* The possible values of files_to_search when use_recursive_search is set.
RECURSIVE RecursiveFilesToSearch(_)
RecursiveFilesToSearch(target_file_paths) ==
  IF target_file_paths = << >> THEN { << >> }
  ELSE { discovered_files \o more :
           discovered_files \in find_all_files_recursively(Head(target_file_paths)),
           more \in RecursiveFilesToSearch(Tail(target_file_paths)) }

\* files_to_search and the messages written when use_recursive_search is
\* not set.
RECURSIVE ListedFilesToSearch(_, _)
ListedFilesToSearch(target_file_paths, acc) ==
  IF target_file_paths = << >> THEN acc
  ELSE LET target_path == Head(target_file_paths)
       IN ListedFilesToSearch(Tail(target_file_paths),
            IF is_regular_file(target_path)
            THEN [acc EXCEPT !.files_to_search = Append(@, target_path)]
            ELSE IF exists(target_path)
            THEN [acc EXCEPT !.messages = Append(@, "Warning: Skipping non-regular file: ")]
            ELSE [acc EXCEPT !.messages = Append(@, "Error: Path not found: ")])

----------------------------------------------------------------------------
(* The engine of src/src/Server.cpp: regex2nfa and matchEpsilonNFA.  Its   *)
(* states carry the ids of the groups they lie in (capture_ids) and the    *)
(* number of the last list they were added to (lastlist); the two globals  *)
(* capture_id_counter and listid are passed in and handed back.            *)

Split == 256
MatchAny == 257
MatchWord == 258
MatchDigit == 259
MatchChoice == 260
MatchAntiChoice == 261
MatchStart == 262
MatchEnd == 263
BackRefStart == 300
Matched == 1000

\* A default-constructed State with c set.
State(c) ==
  [ out |-> NullState,
    out1 |-> NullState,
    c |-> c,
    lastlist |-> -1,
    match_set |-> << >>,
    capture_ids |-> << >> ]

\* The parser's work state is [rest, heap, capture_id_counter, error]; a
\* Fragment is returned with it as [ps, start, out].
Frag(ps, start, out) == [ ps |-> ps, start |-> start, out |-> out ]

ThrowFrom(ps, what) == Frag([ps EXCEPT !.error = what], NullState, << >>)

OutSlot(s) == [ state |-> s, slot |-> "out" ]
Out1Slot(s) == [ state |-> s, slot |-> "out1" ]

\* for (auto o : frag.out) *o = target;
RECURSIVE LinkOutputs(_, _, _)
LinkOutputs(heap, outs, target) ==
  IF outs = << >> THEN heap
  ELSE LinkOutputs(IF Head(outs).slot = "out"
                   THEN [heap EXCEPT ![Head(outs).state].out = target]
                   ELSE [heap EXCEPT ![Head(outs).state].out1 = target],
                   Tail(outs), target)

\* The states capture_fragment visits from its argument: everything
\* reachable through out and out1.
RECURSIVE VisitedFrom(_, _, _)
VisitedFrom(heap, frontier, visited) ==
  IF frontier = {} THEN visited
  ELSE VisitedFrom(heap,
                   (UNION { { heap[q].out, heap[q].out1 } : q \in frontier })
                     \ (visited \cup frontier \cup { NullState }),
                   visited \cup frontier)

HasCaptureId(st, id) == \E k \in 1..Len(st.capture_ids) : st.capture_ids[k] = id

\* capture_fragment(s) with the global capture_id_counter at id.
capture_fragment(heap, s, id) ==
  [ q \in 1..Len(heap) |->
      IF q \in VisitedFrom(heap, { s } \ { NullState }, {}) /\ ~HasCaptureId(heap[q], id)
      THEN [heap[q] EXCEPT !.capture_ids = Append(@, id)]
      ELSE heap[q] ]

\* The lambda prec of parse.
prec(c) ==
  IF c = Ord("|") THEN 0
  ELSE IF c = Ord("]") \/ c = Ord(")") THEN -1
  ELSE 1

\* The postfix quantifier switch at the end of parse_primary.
Quantified(f) ==
  IF f.ps.error # NoError \/ f.ps.rest = << >> THEN f
  ELSE
    LET q == Head(f.ps.rest)
        s == Len(f.ps.heap) + 1
        withSplit == Append(f.ps.heap, [State(Split) EXCEPT !.out = f.start])
    IN CASE q = Ord("*") ->
              Frag([f.ps EXCEPT !.heap = LinkOutputs(withSplit, f.out, s), !.rest = Tail(@)],
                   s, << Out1Slot(s) >>)
         [] q = Ord("+") ->
              Frag([f.ps EXCEPT !.heap = LinkOutputs(withSplit, f.out, s), !.rest = Tail(@)],
                   f.start, << Out1Slot(s) >>)
         [] q = Ord("?") ->
              Frag([f.ps EXCEPT !.heap = withSplit, !.rest = Tail(@)],
                   s, Append(f.out, Out1Slot(s)))
         [] OTHER -> f

RECURSIVE parse_primary(_)
RECURSIVE parse(_, _, _)
RECURSIVE ParseRhs(_, _)

\* A fragment made of the single state, its c set.
OneState(ps, state, c) ==
  Frag([ps EXCEPT !.heap[state].c = c], state, << OutSlot(state) >>)

\* case '\\': ps is past the backslash.
PrimaryEscape(ps, state) ==
  IF ps.rest = << >> THEN ThrowFrom(ps, "Unexpected end of pattern after \\")
  ELSE IF Head(ps.rest) = Ord("d") THEN OneState([ps EXCEPT !.rest = Tail(@)], state, MatchDigit)
  ELSE IF Head(ps.rest) = Ord("w") THEN OneState([ps EXCEPT !.rest = Tail(@)], state, MatchWord)
  ELSE IF isdigit(Head(ps.rest))
  THEN OneState([ps EXCEPT !.rest = Tail(@)], state, BackRefStart + (Head(ps.rest) - Ord("0")))
  ELSE OneState([ps EXCEPT !.rest = Tail(@)], state, Head(ps.rest))

\* case '[': members is what the while loop read after the optional '^'.
PrimaryBracket(ps, state, neg, members) ==
  IF members.rest = << >>
  THEN ThrowFrom([ps EXCEPT !.rest = members.rest],
                 "Unclosed bracket expression (missing ']')")
  ELSE Frag([ps EXCEPT !.rest = Tail(members.rest),
                       !.heap[state].c = IF neg THEN MatchAntiChoice ELSE MatchChoice,
                       !.heap[state].match_set = members.character_set],
            state, << OutSlot(state) >>)

\* case '(': after the inner expression was parsed: the closing ')', then
\* capture_fragment(frag.start) and capture_id_counter++.
PrimaryGroupEnd(frag) ==
  IF frag.ps.error # NoError THEN frag
  ELSE IF frag.ps.rest = << >> \/ Head(frag.ps.rest) # Ord(")")
  THEN ThrowFrom(frag.ps, "Expected ')' to close group")
  ELSE Frag([frag.ps EXCEPT
               !.rest = Tail(@),
               !.heap = capture_fragment(@, frag.start, frag.ps.capture_id_counter),
               !.capture_id_counter = @ + 1],
            frag.start, frag.out)

\* parse(rx, parse_primary(rx), 0)
ParseAll(first) ==
  IF first.ps.error # NoError THEN first ELSE parse(first.ps, first, 0)

\* The switch on c of parse_primary, up to the quantifier; ps is past c.
PrimarySwitch(ps, state, c) ==
  CASE c = Ord(".") -> OneState(ps, state, MatchAny)
    [] c = Ord("^") -> OneState(ps, state, MatchStart)
    [] c = Ord("$") -> OneState(ps, state, MatchEnd)
    [] c = Ord("\\") -> PrimaryEscape(ps, state)
    [] c = Ord("[") ->
         IF ps.rest # << >> /\ Head(ps.rest) = Ord("^")
         THEN PrimaryBracket(ps, state, TRUE, BracketMembers(Tail(ps.rest), << >>))
         ELSE PrimaryBracket(ps, state, FALSE, BracketMembers(ps.rest, << >>))
    [] c = Ord("(") -> PrimaryGroupEnd(ParseAll(parse_primary(ps)))
    [] OTHER -> OneState(ps, state, c)

\* parse_primary: the state is allocated before the pattern is looked at.
parse_primary(ps) ==
  IF ps.rest = << >>
  THEN ThrowFrom([ps EXCEPT !.heap = Append(@, State(-1))],
                 "Unexpected end of pattern (expected primary expression)")
  ELSE Quantified(
         PrimarySwitch([ps EXCEPT !.heap = Append(@, State(-1)), !.rest = Tail(@)],
                       Len(ps.heap) + 1,
                       Head(ps.rest)))

\* The inner while loop of parse.
ParseRhs(rhs, op) ==
  IF rhs.ps.error # NoError THEN rhs
  ELSE IF rhs.ps.rest # << >> /\ prec(Head(rhs.ps.rest)) > prec(op)
  THEN ParseRhs(parse(rhs.ps, rhs, prec(op) + 1), op)
  ELSE rhs

\* The end of an iteration of the outer while loop of parse.
Combine(lhs, rhs, op) ==
  IF rhs.ps.error # NoError THEN rhs
  ELSE IF op = Ord("|")
  THEN Frag([rhs.ps EXCEPT !.heap =
               Append(@, [State(Split) EXCEPT !.out = lhs.start, !.out1 = rhs.start])],
            Len(rhs.ps.heap) + 1,
            lhs.out \o rhs.out)
  ELSE Frag([rhs.ps EXCEPT !.heap = LinkOutputs(@, lhs.out, rhs.start)],
            lhs.start, rhs.out)

ParseOn(combined, min_prec) ==
  IF combined.ps.error # NoError THEN combined
  ELSE parse(combined.ps, combined, min_prec)

\* parse(rx, lhs, min_prec): one pass of the outer while loop, then the loop
\* again.
parse(ps, lhs, min_prec) ==
  IF ps.rest = << >> \/ prec(Head(ps.rest)) < min_prec
  THEN Frag(ps, lhs.start, lhs.out)
  ELSE ParseOn(
         Combine(lhs,
                 ParseRhs(parse_primary(IF Head(ps.rest) = Ord("|")
                                        THEN [ps EXCEPT !.rest = Tail(@)] ELSE ps),
                          Head(ps.rest)),
                 Head(ps.rest)),
         min_prec)

\* What regex2nfa leaves: [error, heap, start] and the global
\* capture_id_counter.
ServerNFA(error, heap, start, counter) ==
  [ error |-> error, heap |-> heap, start |-> start, capture_id_counter |-> counter ]

\* The end of regex2nfa: the check for unparsed input and the linking of
\* the dangling outputs to matched.
FinishRegex(frag, matched) ==
  IF frag.ps.error # NoError
  THEN ServerNFA(frag.ps.error, frag.ps.heap, NullState, frag.ps.capture_id_counter)
  ELSE IF frag.ps.rest # << >>
  THEN ServerNFA(IF Head(frag.ps.rest) = Ord(")") THEN "Unmatched ')' in regex"
                 ELSE IF Head(frag.ps.rest) = Ord("]") THEN "Unmatched ']' in regex"
                 ELSE "Syntax error in regex pattern: ",
                 frag.ps.heap, NullState, frag.ps.capture_id_counter)
  ELSE ServerNFA(NoError, LinkOutputs(frag.ps.heap, frag.out, matched), frag.start,
                 frag.ps.capture_id_counter)

\* regex2nfa entered with the global capture_id_counter at counter; matched
\* is the first state allocated.  capture_id_counter = 0 precedes parsing.
regex2nfa(rx_str, counter) ==
  IF rx_str = << >>
  THEN ServerNFA(NoError, << State(Matched) >>, 1, counter)
  ELSE FinishRegex(
         ParseAll(parse_primary(
           [ rest |-> rx_str,
             heap |-> << State(Matched) >>,
             capture_id_counter |-> 0,
             error |-> NoError ])),
         1)

\* CaptureInfo{}: groups is indexed from 0 in the source, from 1 here.
CaptureInfo == [ groups |-> << >>, active |-> EmptyMap, backref_idx |-> 0 ]

\* A List is a sequence of [cap_info, s].
ismatch(heap, l) == \E k \in 1..Len(l) : heap[l[k].s].c = Matched

\* addstate(s, cap_info, l) with the global listid: the heap (lastlist is
\* written) and the list are returned.
RECURSIVE addstate(_, _, _, _, _)
addstate(heap, listid, s, cap_info, l) ==
  IF s = NullState \/ heap[s].lastlist = listid
  THEN [ heap |-> heap, l |-> l ]
  ELSE IF heap[s].c = Split
  THEN LET first == addstate([heap EXCEPT ![s].lastlist = listid], listid,
                             heap[s].out, cap_info, l)
       IN addstate(first.heap, listid, heap[s].out1, cap_info, first.l)
  ELSE [ heap |-> [heap EXCEPT ![s].lastlist = listid],
         l |-> Append(l, [ cap_info |-> cap_info, s |-> s ]) ]

\* startlist(s, l): listid is incremented first.
startlist(heap, listid, s) ==
  [ heap |-> addstate(heap, listid + 1, s, CaptureInfo, << >>).heap,
    listid |-> listid + 1,
    cl |-> addstate(heap, listid + 1, s, CaptureInfo, << >>).l ]

\* if (!caps.active.count(id)) { caps.active[id] = caps.groups.size();
\*                               caps.groups.emplace_back(); }
ActivateGroup(caps, id) ==
  IF id \in DOMAIN caps.active THEN caps
  ELSE [caps EXCEPT !.active = MapPut(@, id, Len(caps.groups)),
                    !.groups = Append(@, << >>)]

\* caps.groups[caps.active[id]] += c;
AppendToGroup(caps, id, c) ==
  [caps EXCEPT !.groups[caps.active[id] + 1] = Append(@, c)]

\* capture(c, caps, s): capture_ids is s->capture_ids.
RECURSIVE capture(_, _, _)
capture(c, caps, capture_ids) ==
  IF capture_ids = << >> THEN caps
  ELSE capture(c,
               AppendToGroup(ActivateGroup(caps, Head(capture_ids)), Head(capture_ids), c),
               Tail(capture_ids))

\* capture() called emplace_back on groups: the vector of a copied
\* CaptureInfo has no spare capacity, so its strings were moved.
GroupsReallocated(cap_info, capture_ids) ==
  /\ cap_info.groups # << >>
  /\ \E k \in 1..Len(capture_ids) : capture_ids[k] \notin DOMAIN cap_info.active

\* captured_str.length() read after capture(): captured_str is a reference
\* into cap_info.groups, which dangles once the vector has reallocated.
\* Every such read is a read of freed memory and yields any of
\* dangling_lengths, each read on its own; the others yield the length of
\* the string.  The values the read can yield are returned.
LengthAfterCapture(cap_info, captured, capture_ids, group_idx, dangling_lengths) ==
  IF GroupsReallocated(cap_info, capture_ids) THEN dangling_lengths
  ELSE { Len(captured.groups[group_idx + 1]) }

\* The end of the backreference branch: cap_info.backref_idx++ and the
\* comparison with captured_str.length().
BackRefAdvance(heap, listid, entry, captured, length, nl) ==
  IF captured.backref_idx + 1 >= length
  THEN addstate(heap, listid, heap[entry.s].out, [captured EXCEPT !.backref_idx = 0], nl)
  ELSE addstate(heap, listid, entry.s, [captured EXCEPT !.backref_idx = @ + 1], nl)

\* int backref_id = s->c - BackRefStart;
BackRefGroup(code) == code - BackRefStart

\* The range test of match_step on the code of a backreference state.
IsKnownBackRef(code, counter) ==
  code >= BackRefStart /\ code < BackRefStart + counter

\* The backreference branch of match_step for one entry of cl: the heaps
\* and lists it can leave, one for every value the length read can yield.
BackRefStep(heap, listid, entry, c, nl, dangling_lengths) ==
  LET cap_info == entry.cap_info
      backref_id == BackRefGroup(heap[entry.s].c)
  IN IF backref_id \notin DOMAIN cap_info.active
     THEN { [ heap |-> heap, l |-> nl ] }
     ELSE IF /\ cap_info.groups[cap_info.active[backref_id] + 1] # << >>
             /\ cap_info.backref_idx < Len(cap_info.groups[cap_info.active[backref_id] + 1])
             /\ cap_info.groups[cap_info.active[backref_id] + 1][cap_info.backref_idx + 1] = c
     THEN { BackRefAdvance(heap, listid, entry,
                           capture(c, cap_info, heap[entry.s].capture_ids),
                           length, nl) :
              length \in LengthAfterCapture(cap_info,
                                            capture(c, cap_info, heap[entry.s].capture_ids),
                                            heap[entry.s].capture_ids,
                                            cap_info.active[backref_id],
                                            dangling_lengths) }
     ELSE { [ heap |-> heap, l |-> nl ] }

\* The body of the for loop of match_step for one entry of cl: the heaps
\* and lists it can leave.
StepEntry(heap, listid, counter, entry, c, nl, dangling_lengths) ==
  LET st == heap[entry.s]
      InSet == \E k \in 1..Len(st.match_set) : st.match_set[k] = c
      Advance == { addstate(heap, listid, st.out,
                            capture(c, entry.cap_info, st.capture_ids), nl) }
      Nothing == { [ heap |-> heap, l |-> nl ] }
  IN CASE st.c = MatchAny -> Advance
       [] st.c = MatchDigit -> IF isdigit(c) THEN Advance ELSE Nothing
       [] st.c = MatchWord -> IF isalnum(c) \/ c = Ord("_") THEN Advance ELSE Nothing
       [] st.c = MatchChoice -> IF InSet THEN Advance ELSE Nothing
       [] st.c = MatchAntiChoice -> IF ~InSet THEN Advance ELSE Nothing
       [] OTHER ->
            IF st.c = c THEN Advance
            ELSE IF IsKnownBackRef(st.c, counter)
            THEN BackRefStep(heap, listid, entry, c, nl, dangling_lengths)
            ELSE Nothing

RECURSIVE StepEntries(_, _, _, _, _, _, _)

StepEntriesOn(added, listid, counter, cl, c, dangling_lengths) ==
  StepEntries(added.heap, listid, counter, cl, c, added.l, dangling_lengths)

\* The for loop of match_step from one entry of cl on: the machines it can
\* leave.
StepEntries(heap, listid, counter, cl, c, nl, dangling_lengths) ==
  IF cl = << >> THEN { [ heap |-> heap, listid |-> listid, cl |-> nl ] }
  ELSE UNION { StepEntriesOn(added, listid, counter, Tail(cl), c, dangling_lengths) :
                 added \in StepEntry(heap, listid, counter, Head(cl), c, nl,
                                     dangling_lengths) }

\* match_step(cl, c, nl) followed by std::swap(cl, nl): listid is
\* incremented first.  The machines it can leave.
match_step(heap, listid, counter, cl, c, dangling_lengths) ==
  StepEntries(heap, listid + 1, counter, cl, c, << >>, dangling_lengths)

\* The loop of matchEpsilonNFA that builds final_cl.
RECURSIVE FinalList(_, _, _, _)

FinalListOn(added, listid, cl) == FinalList(added.heap, listid, cl, added.l)

FinalList(heap, listid, cl, final_cl) ==
  IF cl = << >> THEN [ heap |-> heap, l |-> final_cl ]
  ELSE IF heap[Head(cl).s].c = MatchEnd
  THEN FinalListOn(addstate(heap, listid, heap[Head(cl).s].out, Head(cl).cap_info, final_cl),
                   listid, Tail(cl))
  ELSE FinalList(heap, listid, Tail(cl), Append(final_cl, Head(cl)))

\* What matchEpsilonNFA returns, with the heap and listid it leaves.
Returns(value, heap, listid) == [ matched |-> value, heap |-> heap, listid |-> listid ]

\* The machine of matchEpsilonNFA between statements: [heap, listid, cl].
Machine(heap, listid, cl) == [ heap |-> heap, listid |-> listid, cl |-> cl ]

\* char current_char = (text_idx < text.length()) ? text[text_idx] : '\0';
CurrentChar(text, text_idx) == IF text_idx < Len(text) THEN text[text_idx + 1] ELSE 0

\* The loop of matchEpsilonNFA is followed from the machine m; what is
\* returned is the set of the results the call can have.
RECURSIVE MatchFrom(_, _, _, _, _, _)

\* The last if of the loop body: the restart after cl became empty, then
\* the next iteration.
AfterRestart(nfa, text, text_idx, m, counter, dangling_lengths) ==
  IF ismatch(m.heap, m.cl) THEN { Returns(1, m.heap, m.listid) }
  ELSE MatchFrom(nfa, text, text_idx + 1, m, counter, dangling_lengths)

RestartOnMachine(nfa, text, text_idx, started, counter, dangling_lengths) ==
  UNION { AfterRestart(nfa, text, text_idx, stepped, counter, dangling_lengths) :
            stepped \in match_step(started.heap, started.listid, counter, started.cl,
                                   CurrentChar(text, text_idx), dangling_lengths) }

\* if (ismatch(cl)) return 1; and the restart that follows it.
AfterStep(nfa, text, text_idx, m, counter, dangling_lengths) ==
  IF ismatch(m.heap, m.cl) THEN { Returns(1, m.heap, m.listid) }
  ELSE IF m.cl = << >> /\ nfa.heap[nfa.start].c # MatchStart /\ text_idx < Len(text)
  THEN RestartOnMachine(nfa, text, text_idx, startlist(m.heap, m.listid, nfa.start),
                        counter, dangling_lengths)
  ELSE MatchFrom(nfa, text, text_idx + 1, m, counter, dangling_lengths)

\* if (!cl.empty()) if (text_idx < text.length()) { match_step; swap }
AfterSeed(nfa, text, text_idx, m, counter, dangling_lengths) ==
  IF m.cl # << >> /\ text_idx < Len(text)
  THEN UNION { AfterStep(nfa, text, text_idx, stepped, counter, dangling_lengths) :
                 stepped \in match_step(m.heap, m.listid, counter, m.cl,
                                        CurrentChar(text, text_idx), dangling_lengths) }
  ELSE AfterStep(nfa, text, text_idx, m, counter, dangling_lengths)

\* if (!match_from_start_of_string && cl.empty()) startlist(start, cl);
AfterFinal(nfa, text, text_idx, m, counter, dangling_lengths) ==
  AfterSeed(nfa, text, text_idx,
            IF nfa.heap[nfa.start].c # MatchStart /\ m.cl = << >>
            THEN startlist(m.heap, m.listid, nfa.start)
            ELSE m,
            counter, dangling_lengths)

\* if (current_char == '\0') { final_cl ...; if (ismatch(final_cl)) return 1; }
FinalCheck(nfa, text, text_idx, m, final, counter, dangling_lengths) ==
  IF ismatch(final.heap, final.l) THEN { Returns(1, final.heap, m.listid) }
  ELSE AfterFinal(nfa, text, text_idx, Machine(final.heap, m.listid, m.cl),
                  counter, dangling_lengths)

\* The for loop of matchEpsilonNFA from the iteration at text_idx on.
MatchFrom(nfa, text, text_idx, m, counter, dangling_lengths) ==
  IF text_idx > Len(text) THEN { Returns(0, m.heap, m.listid) }
  ELSE IF CurrentChar(text, text_idx) = 0
  THEN FinalCheck(nfa, text, text_idx, m, FinalList(m.heap, m.listid, m.cl, << >>),
                  counter, dangling_lengths)
  ELSE AfterFinal(nfa, text, text_idx, m, counter, dangling_lengths)

\* The statements of matchEpsilonNFA before the loop: listid++ and the
\* first list, a leading MatchStart being skipped.
FirstList(nfa, listid) ==
  IF nfa.heap[nfa.start].c = MatchStart
  THEN addstate(nfa.heap, listid + 1, nfa.heap[nfa.start].out, CaptureInfo, << >>)
  ELSE addstate(nfa.heap, listid + 1, nfa.start, CaptureInfo, << >>)

MatchWithFirstList(nfa, text, first, listid, counter, dangling_lengths) ==
  MatchFrom(nfa, text, 0, Machine(first.heap, listid + 1, first.l), counter, dangling_lengths)

\* int matchEpsilonNFA(start, text), run with the globals listid and
\* capture_id_counter as given: the results the call can have, the value
\* returned with the heap and listid left.  There is one result unless a
\* length was read through the dangling reference.
matchEpsilonNFA(nfa, text, listid, counter, dangling_lengths) ==
  MatchWithFirstList(nfa, text, FirstList(nfa, listid), listid, counter, dangling_lengths)

----------------------------------------------------------------------------
(* Inputs: the patterns and the lines the program is run on.               *)

\* Longest pattern and longest line of the enumerated families.
MaxPatternLen == 2
MaxTextLen == 3

\* Every string over alphabet of length 0..n.
StringsUpTo(alphabet, n) == UNION { [1..k -> alphabet] : k \in 0..n }

PatternAlphabet == { Ord(c) : c \in {"a", "b", ".", "*", "?", "|", "^", "$"} }
TextAlphabet == { Ord(c) : c \in {"a", "b"} }

\* The patterns and lines of the scenarios of the specification, and
\* patterns exercising groups, classes, escapes and backreferences.
NamedPatterns ==
  { Bytes(t) : t \in
    { <<"a", "a", "b">>,
      <<"a", "a", "b", "|", "b">>,
      <<"a", "*", "b">>,
      <<"a", "b", "|", "c", "d">>,
      <<"[", "0", "1", "2", "3", "4", "5", "6", "7", "8", "9", "]", "+">>,
      <<"(", "c", "a", "t", "|", "d", "o", "g", ")", "s", "?">>,
      <<"(", "\\", "w", "+", ")", " ", "\\", "1">>,
      <<"^", "\\", "d", "\\", "d", ":", "\\", "d", "\\", "d", "$">>,
      <<"(", "a", "|", "b", ")", "+", "c">>,
      <<"^", "a", "b", "c">>,
      <<"^", "a", "*">>,
      <<"(", "a", "*", ")", "*">>,
      <<"(", "a", "?", ")", "+", "b">>,
      <<"(", "a", ")", "\\", "1">>,
      <<"(", "a", "*", ")", "b", "\\", "1">>,
      <<"a", "b", "$">>,
      <<"a", "$", "b">>,
      <<"a", "|", "b", "$">>,
      <<"[", "^", "a", "]", "b">>,
      <<"a", "+", "b", "?">>,
      <<"b", "|", "^", "a">>,
      <<"(", "a">>,
      <<"a", ")">>,
      <<"[", "a">>,
      <<"a", "\\">>,
      <<"a", "|", "a">>,
      <<"(", "a", "|", ".", ")", "b">>,
      <<"(", "a", "b", ")", "\\", "1">>,
      <<"(", "a", "*", ")", "*", "b">>,
      <<"a", "*", "|", "b", "*">> } }

NamedTexts ==
  { Bytes(t) : t \in
    { <<"a", "a", "a", "b">>,
      <<"a", "b", "a", "b">>,
      <<"p", "r", "i", "c", "e", " ", "4", "2", " ", "u", "s", "d">>,
      <<"I", " ", "l", "i", "k", "e", " ", "c", "a", "t", "s">>,
      <<"h", "e", "l", "l", "o", " ", "h", "e", "l", "l", "o", " ", "w", "o", "r", "l", "d">>,
      <<"1", "2", ":", "3", "4">>,
      <<" ", "1", "2", ":", "3", "4">>,
      <<"a", "b", "a", "b", "b", "c">>,
      <<"x", "y", "c", "d", "x", "y">>,
      <<"a", "b", "c">>,
      <<"a", "b", "c", "d">>,
      <<"x", "a", "b", "c">>,
      <<"x", "a", "b", "a", "b", "x">> } }

Patterns == StringsUpTo(PatternAlphabet, MaxPatternLen) \cup NamedPatterns
Texts == StringsUpTo(TextAlphabet, MaxTextLen) \cup NamedTexts

----------------------------------------------------------------------------
(* The program as a state machine: one run compiles one pattern and        *)
(* matches one line with match_text_with_positions, one loop iteration     *)
(* per step.                                                               *)

VARIABLES
  pattern,          \* the pattern given to compile_regex_to_nfa
  input_text,       \* the line given to match_text_with_positions
  pc,               \* "compile", "seed", "scan", "done" or "error"
  nfa,              \* what compile_regex_to_nfa returned
  current_states,   \* ActiveStateList current_states
  match_start,      \* size_t match_start
  character_index,  \* size_t character_index
  result,           \* the MatchInfo returned
  seed_positions    \* history: the index of every seeding of current_states

\* The state of main.
VARIABLES
  argv,                      \* the arguments after argv[0]
  stdin,                     \* the bytes of std::cin still to be read
  main_pc,                   \* "idle", "arguments", "compile", "stdin", "files",
                             \* "open", "read" or "exited"
  arguments,                 \* the locals set by the argument loop
  compiled_nfa_start,        \* what compile_regex_to_nfa returned to main
  files_to_search,           \* std::vector<std::string> files_to_search
  should_prefix_with_filename,
  file_index,                \* the position of file_path in files_to_search
  input_file_stream,         \* the bytes of the open file still to be read
  found_any_match_globally,
  stdout,                    \* the bytes written to std::cout
  stderr,                    \* the messages written to std::cerr
  exit_code,                 \* what main returned, NotExited until it has
  lines_read,                \* history: the lines getline returned, in order
  reported                   \* history: the matching lines handed to the reporter

\* The state of the compiler.
VARIABLES
  next_capture_group_id,     \* the global counter of the parser
  compilations               \* history: the pattern and the result of every call of
                             \* compile_regex_to_nfa so far, in order

match_vars == << pattern, input_text, pc, nfa, current_states, match_start,
                 character_index, result, seed_positions >>

main_vars == << argv, stdin, main_pc, arguments, compiled_nfa_start, files_to_search,
                should_prefix_with_filename, file_index, input_file_stream,
                found_any_match_globally, stdout, stderr, exit_code, lines_read,
                reported >>

\* The state of src/src/Server.cpp.
VARIABLES
  pattern_str,               \* the pattern given to regex2nfa
  nfa_start,                 \* what regex2nfa returned, with the states it points to
  capture_id_counter,        \* the global counter of the parser
  listid,                    \* the global number of the list being built
  server_pc,                 \* "idle", "compile", "lines" or "error"
  line_results               \* history: every line given to matchEpsilonNFA and
                             \* what it returned, in order

compiler_vars == << next_capture_group_id, compilations >>

server_vars == << pattern_str, nfa_start, capture_id_counter, listid, server_pc,
                 line_results >>

vars == << match_vars, main_vars, compiler_vars, server_vars >>

NoServerNFA == ServerNFA(NoError, << >>, NullState, 0)

\* src/src/Server.cpp is not part of the run.
ServerIdle ==
  /\ pattern_str = << >>
  /\ nfa_start = NoServerNFA
  /\ capture_id_counter = 0
  /\ listid = 0
  /\ server_pc = "idle"
  /\ line_results = << >>

NoNFA == CompiledNFA(NoError, << >>, NullState)

NotExited == -1

\* The process has started: no pattern was compiled yet.
CompilerStarted ==
  /\ next_capture_group_id = InitialGroupId
  /\ compilations = << >>

\* A call of compile_regex_to_nfa(regex_string) as the compiler state sees it.
CompilerCalled(regex_string) ==
  /\ next_capture_group_id' =
       CompileWithCounter(regex_string, next_capture_group_id).next_capture_group_id
  /\ compilations' =
       Append(compilations,
              [ regex_string |-> regex_string,
                nfa |-> CompileWithCounter(regex_string, next_capture_group_id).nfa ])

\* main is not part of the run.
MainIdle ==
  /\ argv = << >>
  /\ stdin = << >>
  /\ main_pc = "idle"
  /\ arguments = ArgumentDefaults
  /\ compiled_nfa_start = NoNFA
  /\ files_to_search = << >>
  /\ should_prefix_with_filename = FALSE
  /\ file_index = 0
  /\ input_file_stream = << >>
  /\ found_any_match_globally = FALSE
  /\ stdout = << >>
  /\ stderr = << >>
  /\ exit_code = NotExited
  /\ lines_read = << >>
  /\ reported = << >>

Init ==
  /\ pattern \in Patterns
  /\ input_text \in Texts
  /\ pc = "compile"
  /\ nfa = NoNFA
  /\ current_states = << >>
  /\ match_start = 0
  /\ character_index = 0
  /\ result = MatchInfo(FALSE, 0, 0)
  /\ seed_positions = << >>
  /\ MainIdle
  /\ CompilerStarted
  /\ ServerIdle

\* compile_regex_to_nfa(pattern); a thrown runtime_error ends the run.
Compile ==
  /\ pc = "compile"
  /\ nfa' = CompileWithCounter(pattern, next_capture_group_id).nfa
  /\ pc' = IF nfa'.error = NoError THEN "seed" ELSE "error"
  /\ CompilerCalled(pattern)
  /\ UNCHANGED << pattern, input_text, current_states, match_start,
                  character_index, result, seed_positions >>
  /\ UNCHANGED main_vars
  /\ UNCHANGED server_vars

\* match_text_with_positions up to the for loop.
Seed ==
  /\ pc = "seed"
  /\ current_states' = SeedStates(nfa)
  /\ match_start' = 0
  /\ character_index' = 0
  /\ seed_positions' = << 0 >>
  /\ pc' = "scan"
  /\ UNCHANGED << pattern, input_text, nfa, result >>
  /\ UNCHANGED main_vars
  /\ UNCHANGED server_vars
  /\ UNCHANGED compiler_vars

\* The loop iteration with character_index == text_length, and the return
\* that follows the loop.
EndOfString ==
  /\ pc = "scan"
  /\ character_index = Len(input_text)
  /\ result' = EndOfStringCheck(nfa, current_states, match_start, character_index)
  /\ pc' = "done"
  /\ UNCHANGED << pattern, input_text, nfa, current_states, match_start,
                  character_index, seed_positions >>
  /\ UNCHANGED main_vars
  /\ UNCHANGED server_vars
  /\ UNCHANGED compiler_vars

\* A loop iteration with character_index < text_length.
Scan ==
  /\ pc = "scan"
  /\ character_index < Len(input_text)
  /\ LET it == ScanCharacter(nfa, input_text, current_states, match_start, character_index)
     IN /\ current_states' = it.current_states
        /\ match_start' = it.match_start
        /\ seed_positions' = seed_positions \o it.seeded
        /\ IF it.returned
           THEN /\ result' = it.result
                /\ pc' = "done"
                /\ UNCHANGED character_index
           ELSE /\ character_index' = character_index + 1
                /\ UNCHANGED << result, pc >>
  /\ UNCHANGED << pattern, input_text, nfa >>
  /\ UNCHANGED main_vars
  /\ UNCHANGED server_vars
  /\ UNCHANGED compiler_vars

Next == Compile \/ Seed \/ EndOfString \/ Scan

Spec == Init /\ [][Next]_vars

----------------------------------------------------------------------------
(* The compiler alone: compile_regex_to_nfa is applied to every pattern    *)
(* over the bytes that carry syntax.                                       *)

\* Longest pattern of the syntax family.
MaxSyntaxLen == 3

SyntaxAlphabet == { Ord(c) : c \in {"a", "(", ")", "[", "]", "\\", "|", "*"} }

SyntaxPatterns == StringsUpTo(SyntaxAlphabet, MaxSyntaxLen) \cup NamedPatterns

InitParser ==
  /\ pattern \in SyntaxPatterns
  /\ input_text = << >>
  /\ pc = "compile"
  /\ nfa = NoNFA
  /\ current_states = << >>
  /\ match_start = 0
  /\ character_index = 0
  /\ result = MatchInfo(FALSE, 0, 0)
  /\ seed_positions = << >>
  /\ MainIdle
  /\ CompilerStarted
  /\ ServerIdle

NextParser == Compile

SpecParser == InitParser /\ [][NextParser]_vars

----------------------------------------------------------------------------
(* main as a state machine: one run of the program on an argument list,    *)
(* a standard input and the file system above; one step per line read.     *)

\* Longest argument list of the enumerated family.
MaxArgs == 3

ArgumentTokens ==
  { ArgE, ArgR, ArgColor \o ColorNever,
    Bytes(<< "a" >>), Bytes(<< "(" >>), << >>, PathF, PathD }

NamedArguments ==
  { << ArgE, Bytes(<< "a" >>), PathF, PathDH >>,
    << ArgE, Bytes(<< "a" >>), PathF, PathU >>,
    << ArgE, Bytes(<< "a" >>), PathU, PathD >>,
    << ArgColor \o ColorNever, ArgE, Bytes(<< "a" >>), PathF, PathDH >>,
    << ArgColor \o ColorAlways, ArgE, Bytes(<< "a" >>), PathF >>,
    << ArgColor \o ColorNever, ArgColor \o ColorAuto, ArgE, Bytes(<< "b" >>) >>,
    << ArgColor \o ColorNever, ArgColor \o Bytes(<< "o", "n" >>), ArgE, Bytes(<< "b" >>) >>,
    << ArgE, Bytes(<< "a", "*", "b" >>), PathF >>,
    << ArgE, Bytes(<< "b", "$" >>), PathDot, PathF, PathD >>,
    << ArgR, ArgE, Bytes(<< "b" >>), PathD, PathF >>,
    << ArgR, ArgColor \o ColorNever, ArgE, Bytes(<< "a" >>) >>,
    << ArgE, Bytes(<< "(" >>), ArgE, Bytes(<< "x" >>), PathF >> }

ArgumentLists == StringsUpTo(ArgumentTokens, MaxArgs) \cup NamedArguments

StdinInputs ==
  { << >>,
    Bytes(<< "b" >>) \o << NewLine >>,
    Bytes(<< "x", "a", "b" >>) \o << NewLine, NewLine >> \o Bytes(<< "b", "a" >>),
    Bytes(<< "b" >>) \o << NewLine >> \o Bytes(<< "a", "b" >>) \o << NewLine >> }

\* The matcher is not run as a state machine of its own.
MatcherIdle ==
  /\ pattern = << >>
  /\ input_text = << >>
  /\ pc = "idle"
  /\ nfa = NoNFA
  /\ current_states = << >>
  /\ match_start = 0
  /\ character_index = 0
  /\ result = MatchInfo(FALSE, 0, 0)
  /\ seed_positions = << >>

InitMain ==
  /\ argv \in ArgumentLists
  /\ stdin \in StdinInputs
  /\ main_pc = "arguments"
  /\ arguments = ArgumentDefaults
  /\ compiled_nfa_start = NoNFA
  /\ files_to_search = << >>
  /\ should_prefix_with_filename = FALSE
  /\ file_index = 0
  /\ input_file_stream = << >>
  /\ found_any_match_globally = FALSE
  /\ stdout = << >>
  /\ stderr = << >>
  /\ exit_code = NotExited
  /\ lines_read = << >>
  /\ reported = << >>
  /\ MatcherIdle
  /\ CompilerStarted
  /\ ServerIdle

\* return found_any_match_globally ? 0 : 1; and return !found_any_match_globally;
ExitStatus_Inverted(found) == IF found THEN 1 ELSE 0

ExitStatus(found) == IF found THEN 0 ELSE 1

\* The argument loop and the checks that follow it, up to the compilation.
ParseArguments ==
  /\ main_pc = "arguments"
  /\ arguments' = ArgumentLoop(argv, 1, ArgumentDefaults)
  /\ IF ArgumentError(argv, arguments') # ""
     THEN /\ stderr' = Append(stderr, ArgumentError(argv, arguments'))
          /\ exit_code' = 1
          /\ main_pc' = "exited"
     ELSE /\ main_pc' = "compile"
          /\ UNCHANGED << stderr, exit_code >>
  /\ UNCHANGED << argv, stdin, compiled_nfa_start, files_to_search,
                  should_prefix_with_filename, file_index, input_file_stream,
                  found_any_match_globally, stdout, lines_read, reported >>
  /\ UNCHANGED match_vars
  /\ UNCHANGED server_vars
  /\ UNCHANGED compiler_vars

\* compile_regex_to_nfa and its catch; then the choice between standard
\* input and files, "." being searched when -r has no path.
CompilePattern ==
  /\ main_pc = "compile"
  /\ compiled_nfa_start' =
       CompileWithCounter(arguments.regex_pattern_string, next_capture_group_id).nfa
  /\ IF compiled_nfa_start'.error # NoError
     THEN /\ stderr' = Append(stderr, "Regex parsing error: ")
          /\ exit_code' = 1
          /\ main_pc' = "exited"
          /\ UNCHANGED arguments
     ELSE /\ UNCHANGED << stderr, exit_code >>
          /\ IF arguments.target_file_paths = << >>
             THEN IF arguments.use_recursive_search
                  THEN /\ arguments' = [arguments EXCEPT !.target_file_paths = << PathDot >>]
                       /\ main_pc' = "files"
                  ELSE /\ main_pc' = "stdin"
                       /\ UNCHANGED arguments
             ELSE /\ main_pc' = "files"
                  /\ UNCHANGED arguments
  /\ UNCHANGED << argv, stdin, files_to_search, should_prefix_with_filename,
                  file_index, input_file_stream, found_any_match_globally, stdout,
                  lines_read, reported >>
  /\ UNCHANGED match_vars
  /\ UNCHANGED server_vars
  /\ CompilerCalled(arguments.regex_pattern_string)

\* The same pass by a simulator that stamps the start state with the number
\* of the list it is building, in NFAState::last_list_id.
ReadStdinLine_MarksStartState ==
  /\ main_pc = "stdin"
  /\ IF getline(stdin).ok
     THEN /\ stdin' = getline(stdin).rest
          /\ lines_read' = Append(lines_read, getline(stdin).line)
          /\ IF match_text_with_positions(compiled_nfa_start, getline(stdin).line).found
             THEN /\ stdout' = stdout \o
                       print_with_color(getline(stdin).line,
                                        match_text_with_positions(compiled_nfa_start,
                                                                  getline(stdin).line),
                                        arguments.use_color)
                  /\ found_any_match_globally' = TRUE
                  /\ reported' = Append(reported,
                       [ from_file |-> FALSE, file_path |-> << >>,
                         line |-> getline(stdin).line,
                         match_info |-> match_text_with_positions(compiled_nfa_start,
                                                                  getline(stdin).line) ])
             ELSE UNCHANGED << stdout, found_any_match_globally, reported >>
          /\ UNCHANGED << main_pc, exit_code >>
     ELSE /\ exit_code' = ExitStatus(found_any_match_globally)
          /\ main_pc' = "exited"
          /\ UNCHANGED << stdin, lines_read, stdout, found_any_match_globally, reported >>
  /\ compiled_nfa_start' =
       IF getline(stdin).ok
       THEN [compiled_nfa_start EXCEPT
               !.heap[compiled_nfa_start.start_state].last_list_id = Len(lines_read)]
       ELSE compiled_nfa_start
  /\ UNCHANGED << argv, arguments, files_to_search,
                  should_prefix_with_filename, file_index, input_file_stream, stderr >>
  /\ UNCHANGED match_vars
  /\ UNCHANGED server_vars
  /\ UNCHANGED compiler_vars

\* One pass of while (std::getline(std::cin, input_line)), or the return
\* that follows the loop.
ReadStdinLine ==
  /\ main_pc = "stdin"
  /\ IF getline(stdin).ok
     THEN /\ stdin' = getline(stdin).rest
          /\ lines_read' = Append(lines_read, getline(stdin).line)
          /\ IF match_text_with_positions(compiled_nfa_start, getline(stdin).line).found
             THEN /\ stdout' = stdout \o
                       print_with_color(getline(stdin).line,
                                        match_text_with_positions(compiled_nfa_start,
                                                                  getline(stdin).line),
                                        arguments.use_color)
                  /\ found_any_match_globally' = TRUE
                  /\ reported' = Append(reported,
                       [ from_file |-> FALSE, file_path |-> << >>,
                         line |-> getline(stdin).line,
                         match_info |-> match_text_with_positions(compiled_nfa_start,
                                                                  getline(stdin).line) ])
             ELSE UNCHANGED << stdout, found_any_match_globally, reported >>
          /\ UNCHANGED << main_pc, exit_code >>
     ELSE /\ exit_code' = ExitStatus(found_any_match_globally)
          /\ main_pc' = "exited"
          /\ UNCHANGED << stdin, lines_read, stdout, found_any_match_globally, reported >>
  /\ UNCHANGED << argv, arguments, compiled_nfa_start, files_to_search,
                  should_prefix_with_filename, file_index, input_file_stream, stderr >>
  /\ UNCHANGED match_vars
  /\ UNCHANGED server_vars
  /\ UNCHANGED compiler_vars

\* files_to_search is filled, recursively or from the paths given, and
\* should_prefix_with_filename is set.
CollectFiles ==
  /\ main_pc = "files"
  /\ IF arguments.use_recursive_search
     THEN /\ files_to_search' \in RecursiveFilesToSearch(arguments.target_file_paths)
          /\ UNCHANGED stderr
     ELSE /\ files_to_search' =
               ListedFilesToSearch(arguments.target_file_paths,
                                   [ files_to_search |-> << >>, messages |-> << >> ]
                                  ).files_to_search
          /\ stderr' = stderr \o
               ListedFilesToSearch(arguments.target_file_paths,
                                   [ files_to_search |-> << >>, messages |-> << >> ]
                                  ).messages
  /\ should_prefix_with_filename' = (Len(files_to_search') > 1)
  /\ file_index' = 1
  /\ main_pc' = "open"
  /\ UNCHANGED << argv, stdin, arguments, compiled_nfa_start, input_file_stream,
                  found_any_match_globally, stdout, exit_code, lines_read, reported >>
  /\ UNCHANGED match_vars
  /\ UNCHANGED server_vars
  /\ UNCHANGED compiler_vars

\* The head of the loop over files_to_search: the next file is opened, or
\* skipped when it cannot be; after the last file main returns.
OpenFile ==
  /\ main_pc = "open"
  /\ IF file_index > Len(files_to_search)
     THEN /\ exit_code' = ExitStatus(found_any_match_globally)
          /\ main_pc' = "exited"
          /\ UNCHANGED << file_index, input_file_stream, stderr >>
     ELSE IF ~is_open(files_to_search[file_index])
     THEN /\ stderr' = Append(stderr, "Error: Could not open file ")
          /\ file_index' = file_index + 1
          /\ UNCHANGED << main_pc, exit_code, input_file_stream >>
     ELSE /\ input_file_stream' = FileBytes(files_to_search[file_index])
          /\ main_pc' = "read"
          /\ UNCHANGED << file_index, exit_code, stderr >>
  /\ UNCHANGED << argv, stdin, arguments, compiled_nfa_start, files_to_search,
                  should_prefix_with_filename, found_any_match_globally, stdout,
                  lines_read, reported >>
  /\ UNCHANGED match_vars
  /\ UNCHANGED server_vars
  /\ UNCHANGED compiler_vars

\* std::cout << file_path << ':';
FilePrefix_None(file_path) == << >>

FilePrefix(file_path) == Append(file_path, Ord(":"))

\* One pass of while (std::getline(input_file_stream, file_line)), or the
\* close that follows the loop.
ReadFileLine ==
  /\ main_pc = "read"
  /\ IF getline(input_file_stream).ok
     THEN /\ input_file_stream' = getline(input_file_stream).rest
          /\ lines_read' = Append(lines_read, getline(input_file_stream).line)
          /\ IF match_text_with_positions(compiled_nfa_start,
                                          getline(input_file_stream).line).found
             THEN /\ stdout' = stdout
                       \o (IF should_prefix_with_filename
                           THEN FilePrefix(files_to_search[file_index]) ELSE << >>)
                       \o print_with_color(getline(input_file_stream).line,
                                           match_text_with_positions(
                                             compiled_nfa_start,
                                             getline(input_file_stream).line),
                                           arguments.use_color)
                  /\ found_any_match_globally' = TRUE
                  /\ reported' = Append(reported,
                       [ from_file |-> TRUE, file_path |-> files_to_search[file_index],
                         line |-> getline(input_file_stream).line,
                         match_info |-> match_text_with_positions(
                                          compiled_nfa_start,
                                          getline(input_file_stream).line) ])
             ELSE UNCHANGED << stdout, found_any_match_globally, reported >>
          /\ UNCHANGED << main_pc, file_index >>
     ELSE /\ input_file_stream' = << >>
          /\ file_index' = file_index + 1
          /\ main_pc' = "open"
          /\ UNCHANGED << lines_read, stdout, found_any_match_globally, reported >>
  /\ UNCHANGED << argv, stdin, arguments, compiled_nfa_start, files_to_search,
                  should_prefix_with_filename, stderr, exit_code >>
  /\ UNCHANGED match_vars
  /\ UNCHANGED server_vars
  /\ UNCHANGED compiler_vars

NextMain ==
  \/ ParseArguments
  \/ CompilePattern
  \/ ReadStdinLine
  \/ CollectFiles
  \/ OpenFile
  \/ ReadFileLine

SpecMain == InitMain /\ [][NextMain]_vars

----------------------------------------------------------------------------
(* The compiler called again and again in one process: every call finds    *)
(* the global next_capture_group_id as the call before left it.            *)

\* Most calls of compile_regex_to_nfa in one run.
MaxCompilations == 3

\* Patterns with no group, one group and several, some of them rejected
\* after groups were opened.
CompilerPatterns ==
  { Bytes(t) : t \in
    { << >>,
      <<"a">>,
      <<"a", "|", "b">>,
      <<"(", "a", ")", "\\", "1">>,
      <<"(", "(", "a", ")", "b", ")", "\\", "2">>,
      <<"(", "a", ")", "(", "b", ")", "\\", "2">>,
      <<"\\", "1", "(", "a", ")">>,
      <<"(", "a">>,
      <<"(", "(", "a", ")">>,
      <<"(", "a", ")", ")">>,
      <<"(", "a", ")", "(", "b", ")", "[">> } }

\* The lines the compiled NFAs are compared on.
CompilerTexts ==
  { Bytes(t) : t \in
    { << >>, <<"a">>, <<"b">>, <<"a", "a">>, <<"a", "b", "a">>, <<"a", "b", "b">>,
      <<"b", "a", "a">> } }

InitCompiler ==
  /\ MatcherIdle
  /\ MainIdle
  /\ CompilerStarted
  /\ ServerIdle

\* One more call of compile_regex_to_nfa, on any pattern.
CompileNext ==
  /\ Len(compilations) < MaxCompilations
  /\ \E regex_string \in CompilerPatterns : CompilerCalled(regex_string)
  /\ UNCHANGED match_vars
  /\ UNCHANGED main_vars
  /\ UNCHANGED server_vars

NextCompiler == CompileNext

SpecCompiler == InitCompiler /\ [][NextCompiler]_vars

----------------------------------------------------------------------------
(* src/src/Server.cpp as a state machine: main compiles pattern_str once   *)
(* with regex2nfa and calls matchEpsilonNFA(nfa_start, line) on every line *)
(* it reads; the globals capture_id_counter and listid and the lastlist    *)
(* marks of the states live on from call to call.                          *)

\* Most lines read in one run.
MaxServerLines == 2

\* The largest value a read of captured_str.length() through the dangling
\* reference is given.
MaxDanglingLength == 2

\* The values a read of captured_str.length() through the dangling
\* reference can yield: any size_t.  Only its comparison with backref_idx,
\* which is 1 at such a read, is used, so 2 stands for every larger value.
DanglingLengths == 0..MaxDanglingLength

ServerPatterns ==
  { Bytes(t) : t \in
    { << >>,
      <<"a">>,
      <<"a", "*">>,
      <<"^", "a">>,
      <<"a", "$">>,
      <<"a", "|", "b">>,
      <<"[", "a", "b", "]", "b">>,
      <<"(", "a", ")", "\\", "1">>,
      <<"(", "a", ")", "\\", "0">>,
      <<"(", "a", "b", ")", "\\", "1">>,
      <<"(", "a", "b", ")", "\\", "0">>,
      <<"(", "a", "|", "b", ")", "\\", "1">>,
      <<"(", "a", ")", "(", "b", ")", "\\", "1">>,
      <<"(", "a", ")", "(", "b", ")", "\\", "0">>,
      <<"(", "(", "a", ")", "b", ")", "\\", "1">>,
      <<"(", "a", ")", "(", "b", ")", "(", "\\", "1", ")">>,
      <<"(", "a", "+", ")", "\\", "1">>,
      <<"(", "a", ")", ".", "(", "\\", "0", ")", "|",
        "(", "a", ")", "(", "a", ")", "(", "\\", "3", ")">>,
      <<"(", "a">>,
      <<"a", ")">> } }

ServerLines ==
  { Bytes(t) : t \in
    { << >>, <<"a">>, <<"b">>, <<"a", "a">>, <<"a", "b">>, <<"a", "a", "a">>,
      <<"a", "b", "a">>, <<"a", "b", "b">>, <<"a", "b", "a", "b">>, <<"a", "b", "b", "b">> } }

InitServer ==
  /\ MatcherIdle
  /\ MainIdle
  /\ CompilerStarted
  /\ pattern_str \in ServerPatterns
  /\ nfa_start = NoServerNFA
  /\ capture_id_counter = 0
  /\ listid = 0
  /\ server_pc = "compile"
  /\ line_results = << >>

\* main after its arguments are read: an empty pattern_str ends the run
\* before regex2nfa is called; otherwise nfa_start = regex2nfa(pattern_str),
\* and a runtime_error ends the run.
ServerCompile ==
  /\ server_pc = "compile"
  /\ IF pattern_str = << >>
     THEN /\ server_pc' = "error"
          /\ UNCHANGED << nfa_start, capture_id_counter >>
     ELSE /\ nfa_start' = regex2nfa(pattern_str, capture_id_counter)
          /\ capture_id_counter' = regex2nfa(pattern_str, capture_id_counter).capture_id_counter
          /\ server_pc' = IF regex2nfa(pattern_str, capture_id_counter).error # NoError
                          THEN "error" ELSE "lines"
  /\ UNCHANGED << pattern_str, listid, line_results >>
  /\ UNCHANGED match_vars
  /\ UNCHANGED main_vars
  /\ UNCHANGED compiler_vars

\* What a call of matchEpsilonNFA(nfa_start, line) leaves.
LineMatched(line, returned) ==
  /\ nfa_start' = [nfa_start EXCEPT !.heap = returned.heap]
  /\ listid' = returned.listid
  /\ line_results' = Append(line_results, [ line |-> line, matched |-> returned.matched ])

\* One iteration of the getline loop: matchEpsilonNFA(nfa_start, line).
ServerMatchLine ==
  /\ server_pc = "lines"
  /\ Len(line_results) < MaxServerLines
  /\ \E line \in ServerLines :
       \E returned \in matchEpsilonNFA(nfa_start, line, listid, capture_id_counter,
                                       DanglingLengths) :
         LineMatched(line, returned)
  /\ UNCHANGED << pattern_str, capture_id_counter, server_pc >>
  /\ UNCHANGED match_vars
  /\ UNCHANGED main_vars
  /\ UNCHANGED compiler_vars

NextServer == ServerCompile \/ ServerMatchLine

SpecServer == InitServer /\ [][NextServer]_vars

----------------------------------------------------------------------------
(* The matcher on patterns with groups and backreferences: the same steps  *)
(* as above, started on patterns where a backreference stands before,      *)
(* inside and after its group, alone and under a repetition.               *)

BackrefPatterns ==
  { Bytes(t) : t \in
    { <<"(", "a", ")", "\\", "1">>,
      <<"(", "a", "b", ")", "\\", "1">>,
      <<"(", "a", "*", ")", "b", "\\", "1">>,
      <<"(", "a", "|", "b", ")", "\\", "1", "+">>,
      <<"(", "(", "a", ")", "b", ")", "\\", "2", "\\", "1">>,
      <<"\\", "1", "(", "a", ")">>,
      <<"\\", "1">>,
      <<"(", "a", ")", "\\", "2">>,
      <<"(", "a", ")", "\\", "2", "?", "b">>,
      <<"(", "\\", "2", "(", "a", ")", ")", "+">>,
      <<"(", "\\", "2", "b", "|", "(", "a", ")", ")", "+", "c">>,
      <<"(", "\\", "2", "?", "(", "a", ")", ")", "*", "b">>,
      <<"(", "a", "\\", "1", ")">>,
      <<"(", "a", "\\", "1", ")", "b">>,
      <<"(", "a", "a", "\\", "1", ")", "b">>,
      <<"(", "a", "b", "\\", "1", ")", "+">>,
      <<"(", "(", "a", ")", "\\", "2", ")", "\\", "1">>,
      <<"(", ".", "(", "a", ")", "\\", "2", ")", "b">>,
      <<"(", "a", "|", "\\", "1", "b", ")", "+", "c">> } }

BackrefTexts ==
  StringsUpTo(TextAlphabet, MaxTextLen)
    \cup { Bytes(t) : t \in
           { <<"a", "a", "b", "c">>,
             <<"a", "a", "a", "a">>,
             <<"a", "b", "a", "b">>,
             <<"a", "a", "a", "a", "b">>,
             <<"b", "a", "a", "a", "b">>,
             <<"a", "b", "a", "a", "b">> } }

InitBackrefs ==
  /\ pattern \in BackrefPatterns
  /\ input_text \in BackrefTexts
  /\ pc = "compile"
  /\ nfa = NoNFA
  /\ current_states = << >>
  /\ match_start = 0
  /\ character_index = 0
  /\ result = MatchInfo(FALSE, 0, 0)
  /\ seed_positions = << >>
  /\ MainIdle
  /\ CompilerStarted
  /\ ServerIdle

SpecBackrefs == InitBackrefs /\ [][Next]_vars

----------------------------------------------------------------------------
(* The matcher on quantified primaries: every primary below alone and      *)
(* followed by ?, * and +.                                                 *)

QuantifierPrimaries ==
  { Bytes(t) : t \in
    { <<"a">>,
      <<".">>,
      <<"\\", "w">>,
      <<"[", "a", "b", "]">>,
      <<"[", "^", "a", "]">>,
      <<"(", "a", ")">>,
      <<"(", "a", "b", ")">>,
      <<"(", "a", "|", "b", ")">>,
      <<"(", "a", "|", "a", "b", ")">>,
      <<"(", "a", "*", ")">>,
      <<"(", "a", "?", "b", ")">>,
      <<"(", "(", "a", ")", "b", "?", ")">>,
      <<"^">>,
      <<"$">>,
      <<"\\", "1">> } }

Quantifiers == { Ord("?"), Ord("*"), Ord("+") }

QuantifierPatterns ==
  { Append(X, q) : X \in QuantifierPrimaries, q \in Quantifiers }
    \cup { Bytes(t) : t \in
           { <<"a", "*", "b">>,
             <<"(", "a", "|", "b", ")", "+", "c">> } }

QuantifierTexts ==
  StringsUpTo(TextAlphabet, MaxTextLen)
    \cup { Bytes(t) : t \in
           { <<"a", "a", "a", "b">>,
             <<"a", "b", "a", "b", "b", "c">> } }

InitQuantifiers ==
  /\ pattern \in QuantifierPatterns
  /\ input_text \in QuantifierTexts
  /\ pc = "compile"
  /\ nfa = NoNFA
  /\ current_states = << >>
  /\ match_start = 0
  /\ character_index = 0
  /\ result = MatchInfo(FALSE, 0, 0)
  /\ seed_positions = << >>
  /\ MainIdle
  /\ CompilerStarted
  /\ ServerIdle

SpecQuantifiers == InitQuantifiers /\ [][Next]_vars

----------------------------------------------------------------------------
(* The matcher on alternations of literal strings.                         *)

\* Longest pattern of the enumerated alternations.
MaxAlternationLen == 4

AlternationAlphabet == { Ord(c) : c \in {"a", "b", "|"} }

AlternationPatterns ==
  (StringsUpTo(AlternationAlphabet, MaxAlternationLen) \ { << >> })
    \cup { Bytes(t) : t \in
           { <<"a", "b", "|", "c", "d">>,
             <<"a", "|", "b", "c", "|", "d">> } }

AlternationTexts ==
  StringsUpTo(TextAlphabet, MaxTextLen)
    \cup { Bytes(t) : t \in
           { <<"c", "d">>, <<"a", "c", "d">>, <<"a", "b", "d">>, <<"a", "b", "c", "d">>,
             <<"d">>, <<"b", "c">>, <<"a", "b", "c">>, <<"b", "c", "d">>, <<"a", "d">>,
             <<"x", "y", "c", "d", "x", "y">> } }

InitAlternation ==
  /\ pattern \in AlternationPatterns
  /\ input_text \in AlternationTexts
  /\ pc = "compile"
  /\ nfa = NoNFA
  /\ current_states = << >>
  /\ match_start = 0
  /\ character_index = 0
  /\ result = MatchInfo(FALSE, 0, 0)
  /\ seed_positions = << >>
  /\ MainIdle
  /\ CompilerStarted
  /\ ServerIdle

SpecAlternation == InitAlternation /\ [][Next]_vars

----------------------------------------------------------------------------
(* The compiler on patterns with groups and backreferences.                *)

\* Longest pattern of the enumerated family.
MaxGroupPatternLen == 4

GroupAlphabet == { Ord(c) : c \in {"a", "(", ")", "\\", "1", "2", "|"} }

GroupPatterns ==
  StringsUpTo(GroupAlphabet, MaxGroupPatternLen)
    \cup { Bytes(t) : t \in
           { <<"(", "(", "a", ")", "b", ")">>,
             <<"(", "(", "a", ")", "b", ")", "\\", "2", "\\", "1">>,
             <<"(", "a", ")", "(", "b", ")", "(", "c", ")", "\\", "3">>,
             <<"(", "a", "|", "(", "b", ")", ")", "*", "(", "c", ")">>,
             <<"(", "a", ")", "*">>,
             <<"(", "a", ")", "+", "b">>,
             <<"(", "a", ")", "?", "b">>,
             <<"(", "(", "a", ")", "*", "b", ")", "+">>,
             <<"[", "(", "]", "(", "a", ")", "\\", "1">>,
             <<"\\", "(", "(", "a", ")", "\\", "1">>,
             <<"\\", "0", "(", "a", ")", "\\", "9">> } }

InitGroups ==
  /\ pattern \in GroupPatterns
  /\ input_text = << >>
  /\ pc = "compile"
  /\ nfa = NoNFA
  /\ current_states = << >>
  /\ match_start = 0
  /\ character_index = 0
  /\ result = MatchInfo(FALSE, 0, 0)
  /\ seed_positions = << >>
  /\ MainIdle
  /\ CompilerStarted
  /\ ServerIdle

SpecGroups == InitGroups /\ [][NextParser]_vars

----------------------------------------------------------------------------
(* What it means for a substring to match: the NFA is started at index s   *)
(* (a leading AnchorStart can only be passed at index 0), consumes exactly *)
(* the bytes T[s..e), and an Accept is then among its states, after the    *)
(* end-of-text closure when e = |T|.  No restart takes part in this.       *)

\* The configurations of a match attempt that starts at index s.
StartAt(n, s) ==
  IF is_anchored_at_start(n)
  THEN IF s = 0 THEN SeedStates(n) ELSE << >>
  ELSE initialize_active_states(n.heap, n.start_state)

\* The configurations left after consuming T[i..e) from the configurations cur.
RECURSIVE ConsumeSpan(_, _, _, _, _)
ConsumeSpan(heap, cur, T, i, e) ==
  IF i >= e \/ cur = << >> THEN cur
  ELSE ConsumeSpan(heap, process_character_step(heap, cur, T[i + 1]), T, i + 1, e)

\* T[s..e) is in the language of the pattern compiled to n.
AcceptsSpan(n, T, s, e) ==
  LET cur == ConsumeSpan(n.heap, StartAt(n, s), T, s, e)
  IN \/ has_matching_state(n.heap, cur)
     \/ e = Len(T) /\ has_matching_state(n.heap, EndOfStringStates(n.heap, cur, << >>))

\* Some substring of T is in the language of the pattern.
SomeSubstringMatches(n, T) ==
  \E s \in 0..Len(T) : \E e \in s..Len(T) : AcceptsSpan(n, T, s, e)

\* The run is over and match_text_with_positions has returned.
Returned == pc = "done"

Pattern(t) == Bytes(t)
Text(t) == Bytes(t)

----------------------------------------------------------------------------
(* Claims *)

\* C1: for every pattern that compiles and every line T, the matcher
\* reports found exactly when some substring T[s..e), 0 <= s <= e <= |T|,
\* is in the language of the pattern (restart-on-empty is equivalent to
\* trying to start a match at every position).
C1_FoundIffSomeSubstringMatches ==
  Returned => (result.found <=> SomeSubstringMatches(nfa, input_text))

\* The bytes the parser gives a meaning to; a pattern without them is literal.
Metacharacters ==
  { Ord(c) : c \in {".", "^", "$", "\\", "[", "]", "(", ")", "*", "+", "?", "|"} }

IsLiteralPattern(L) ==
  L # << >> /\ \A k \in 1..Len(L) : L[k] \notin Metacharacters

\* L occurs in T at index i.
OccursAt(L, T, i) ==
  i + Len(L) <= Len(T) /\ \A k \in 1..Len(L) : T[i + k] = L[k]

\* C2: for a pattern L of literal bytes only, found holds exactly when L
\* occurs in T, and the reported span is (i, i + |L|) for the first index i
\* at which L occurs.
C2_LiteralFindsFirstOccurrence ==
  (Returned /\ IsLiteralPattern(pattern)) =>
     /\ result.found <=> \E i \in 0..Len(input_text) : OccursAt(pattern, input_text, i)
     /\ result.found =>
          /\ OccursAt(pattern, input_text, result.start_pos)
          /\ \A i \in 0..Len(input_text) :
                OccursAt(pattern, input_text, i) => result.start_pos <= i
          /\ result.end_pos = result.start_pos + Len(pattern)

\* C3: the leftmost match wins: when a match with span (start, end) is
\* reported, no substring that begins before start matches the pattern.
C3_LeftmostMatchWins ==
  (Returned /\ result.found) =>
     \A s \in 0..Len(input_text) : \A e \in s..Len(input_text) :
        s < result.start_pos => ~AcceptsSpan(nfa, input_text, s, e)

\* The index just past the last byte consumed when the matcher is at
\* character_index: a return from inside the scan has consumed the byte at
\* character_index, the end-of-text check has consumed nothing more.
ConsumedEnd ==
  IF Returned /\ result.found /\ character_index < Len(input_text)
  THEN character_index + 1
  ELSE character_index

\* C4: the configurations in current_states are those seeded at match_start
\* that have consumed the bytes from match_start on; a reported span has
\* start = the index of the last seeding, end = the index just past the last
\* byte consumed, and T[start..end) is accepted by the NFA run from its
\* start state.
C4_SpanIsSeededAndAccepted ==
  /\ pc \in {"scan", "done"} =>
       /\ seed_positions # << >>
       /\ match_start = seed_positions[Len(seed_positions)]
       /\ current_states = ConsumeSpan(nfa.heap, StartAt(nfa, match_start),
                                       input_text, match_start, ConsumedEnd)
  /\ (Returned /\ result.found) =>
       /\ result.start_pos = match_start
       /\ result.end_pos = ConsumedEnd
       /\ result.start_pos <= result.end_pos
       /\ result.end_pos <= Len(input_text)
       /\ AcceptsSpan(nfa, input_text, result.start_pos, result.end_pos)

\* C4 witness: a match reported after a reseeding, before the end of the line.
C4_Witness ==
  /\ Returned /\ result.found
  /\ result.start_pos = 2 /\ result.end_pos = 4
  /\ pattern = Pattern(<<"a", "b", "|", "c", "d">>)
  /\ input_text = Text(<<"x", "y", "c", "d", "x", "y">>)

\* C5: the reported span extends over everything a trailing greedy
\* quantifier can consume: [0123456789]+ on "price 42 usd" reports (6,8)
\* and (cat|dog)s? on "I like cats" reports (7,11).
C5_SpanCoversGreedyTail ==
  /\ ( /\ Returned
       /\ pattern = Pattern(<<"[", "0", "1", "2", "3", "4", "5", "6", "7", "8", "9", "]", "+">>)
       /\ input_text = Text(<<"p", "r", "i", "c", "e", " ", "4", "2", " ", "u", "s", "d">>) )
     => result = MatchInfo(TRUE, 6, 8)
  /\ ( /\ Returned
       /\ pattern = Pattern(<<"(", "c", "a", "t", "|", "d", "o", "g", ")", "s", "?">>)
       /\ input_text = Text(<<"I", " ", "l", "i", "k", "e", " ", "c", "a", "t", "s">>) )
     => result = MatchInfo(TRUE, 7, 11)

\* C6: for a pattern whose start state is AnchorStart, a match is reported
\* exactly when a match of the rest of the pattern begins at index 0; the
\* reported start is 0 and the configuration set is never reseeded.
C6_AnchoredMatchesOnlyAtZero ==
  (Returned /\ is_anchored_at_start(nfa)) =>
     /\ result.found <=> \E e \in 0..Len(input_text) : AcceptsSpan(nfa, input_text, 0, e)
     /\ result.found => result.start_pos = 0
     /\ seed_positions = << 0 >>

\* C7: the empty pattern compiles to the Accept state itself, and matching
\* any text against it reports found with span (0, 0).
C7_EmptyPatternMatchesEverything ==
  (Returned /\ pattern = << >>) =>
     /\ nfa.heap[nfa.start_state].character_code = OPCODE_MATCHED
     /\ result = MatchInfo(TRUE, 0, 0)

\* C8: the pattern ^$ matches a line exactly when the line is empty, with
\* span (0, 0).
C8_CaretDollarMatchesOnlyEmptyLine ==
  (Returned /\ pattern = Pattern(<<"^", "$">>)) =>
     /\ result.found <=> input_text = << >>
     /\ result.found => result = MatchInfo(TRUE, 0, 0)

\* C8 witness: ^$ has matched the empty line.
C8_Witness ==
  /\ Returned /\ pattern = Pattern(<<"^", "$">>)
  /\ input_text = << >> /\ result.found

\* C9: the pattern .* matches every line, the empty line included.
C9_DotStarMatchesEveryLine ==
  (Returned /\ pattern = Pattern(<<".", "*">>)) => result.found

\* C9 witness: .* has matched the empty line.
C9_Witness ==
  /\ Returned /\ pattern = Pattern(<<".", "*">>)
  /\ input_text = << >> /\ result.found

\* The states reachable from the states in frontier along transitions that
\* do not leave an AnchorEnd state.
RECURSIVE ReachableBeforeAnchorEnd(_, _, _)
ReachableBeforeAnchorEnd(heap, frontier, seen) ==
  IF frontier = {} THEN seen
  ELSE LET succ == UNION { IF heap[q].character_code = OPCODE_MATCH_END THEN {}
                           ELSE { heap[q].primary_transition,
                                  heap[q].alternative_transition } \ {NullState}
                           : q \in frontier }
       IN ReachableBeforeAnchorEnd(heap, succ \ (seen \cup frontier), seen \cup frontier)

\* Every path of the NFA from where a match attempt starts to Accept passes
\* an AnchorEnd state.
EveryAcceptingPathPassesAnchorEnd(n) ==
  LET root == IF is_anchored_at_start(n)
              THEN n.heap[n.start_state].primary_transition
              ELSE n.start_state
  IN \A q \in ReachableBeforeAnchorEnd(n.heap, {root} \ {NullState}, {}) :
        n.heap[q].character_code # OPCODE_MATCHED

\* A char converted to int.
CharValues == (0 - 128)..127

\* C10: an AnchorEnd state never advances on an input byte, and a match
\* reported through a path that passes an AnchorEnd state has consumed the
\* whole line: its end is |T|.
C10_AnchorEndOnlyAtEndOfText ==
  /\ pc \in {"scan", "done"} =>
       \A k \in 1..Len(current_states) :
          nfa.heap[current_states[k].nfa_state].character_code = OPCODE_MATCH_END =>
             \A b \in CharValues :
                process_character_step(nfa.heap, << current_states[k] >>, b) = << >>
  /\ (Returned /\ result.found /\ EveryAcceptingPathPassesAnchorEnd(nfa)) =>
       result.end_pos = Len(input_text)

\* C10 witness: a match through an AnchorEnd state that was alive in
\* current_states at the end of a line of several bytes.
C10_Witness ==
  /\ Returned /\ result.found
  /\ EveryAcceptingPathPassesAnchorEnd(nfa)
  /\ Len(input_text) > 1
  /\ result.start_pos > 0
  /\ \E k \in 1..Len(current_states) :
        nfa.heap[current_states[k].nfa_state].character_code = OPCODE_MATCH_END

----------------------------------------------------------------------------
(* Backreferences.                                                         *)

\* The state is a Backref(N) state; the Accept code is not one.
IsBackrefState(st) ==
  st.character_code >= OPCODE_BACKREF_START /\ st.character_code # OPCODE_MATCHED

\* Group N was opened and closed on the path that carries capture_info.
GroupClosed(capture_info, N) ==
  /\ N \in DOMAIN capture_info.is_actively_capturing
  /\ ~capture_info.is_actively_capturing[N]
  /\ N \in DOMAIN capture_info.captured_text

\* The configurations left after the bytes of u were stepped one by one.
RECURSIVE Feed(_, _, _)
Feed(heap, cur, u) ==
  IF u = << >> THEN cur
  ELSE Feed(heap, process_character_step(heap, cur, Head(u)), Tail(u))

\* The states of a list of configurations, in order.
StatesOf(active_states) ==
  [k \in 1..Len(active_states) |-> active_states[k].nfa_state]

\* The bytes a backreference is probed with.
ProbeBytes == TextAlphabet \cup { input_text[i] : i \in 1..Len(input_text) }

\* One configuration at a Backref(N) state whose group is closed: it stays
\* on the state while a proper prefix of the bytes still to be matched is
\* consumed, advances to the closure of its successor when the last of them
\* is consumed, dies on a byte that differs, and never changes text[N].
BackrefConsumesCapturedText(heap, config) ==
  LET st == heap[config.nfa_state]
      N == st.character_code - OPCODE_BACKREF_START
      w == config.capture_info.captured_text[N]
      p == MapGet(config.capture_info.backreference_position, N, 0)
      rest == SubSeq(w, p + 1, Len(w))
      successors == StatesOf(add_state_with_epsilon_closure(
                       heap, st.primary_transition, config.capture_info, << >>, {}).active_states)
      Position(c) == MapGet(c.capture_info.backreference_position, N, 0)
      Stays(after, k) ==
        /\ Len(after) = 1
        /\ after[1].nfa_state = config.nfa_state
        /\ Position(after[1]) = p + k
        /\ after[1].capture_info.captured_text[N] = w
      Advances(after) ==
        /\ StatesOf(after) = successors
        /\ \A j \in 1..Len(after) :
              /\ Position(after[j]) = 0
              /\ after[j].capture_info.captured_text[N] = w
  IN /\ w = << >> =>
          \A c \in ProbeBytes : process_character_step(heap, << config >>, c) = << >>
     /\ \A k \in 1..Len(rest) :
          IF k < Len(rest)
          THEN Stays(Feed(heap, << config >>, SubSeq(rest, 1, k)), k)
          ELSE Advances(Feed(heap, << config >>, rest))
     /\ \A k \in 0..(Len(rest) - 1) :
          \A c \in ProbeBytes \ {rest[k + 1]} :
             Feed(heap, << config >>, Append(SubSeq(rest, 1, k), c)) = << >>

HelloPattern == Bytes(<<"(", "\\", "w", "+", ")", " ", "\\", "1">>)
HelloText ==
  Bytes(<<"h", "e", "l", "l", "o", " ", "h", "e", "l", "l", "o", " ", "w", "o", "r", "l", "d">>)

\* C11: a backreference matches exactly the bytes captured by its group: a
\* path on Backref(N) whose group N is closed advances only after it has
\* consumed the bytes of text[N] in order, and dies on the first byte that
\* differs; (\w+) \1 on "hello hello world" reports the span (0,11).
C11_BackrefMatchesCapturedBytes ==
  /\ pc = "scan" =>
       \A k \in 1..Len(current_states) :
          LET config == current_states[k]
              st == nfa.heap[config.nfa_state]
          IN (IsBackrefState(st)
              /\ GroupClosed(config.capture_info, st.character_code - OPCODE_BACKREF_START))
             => BackrefConsumesCapturedText(nfa.heap, config)
  /\ (Returned /\ pattern = HelloPattern /\ input_text = HelloText) =>
       result = MatchInfo(TRUE, 0, 11)

\* C11 witness: a path in the middle of a backreference to a closed group
\* of several bytes.
C11_Witness ==
  /\ pc = "scan"
  /\ \E k \in 1..Len(current_states) :
        LET config == current_states[k]
            st == nfa.heap[config.nfa_state]
            N == st.character_code - OPCODE_BACKREF_START
        IN /\ IsBackrefState(st)
           /\ GroupClosed(config.capture_info, N)
           /\ Len(config.capture_info.captured_text[N]) >= 2
           /\ MapGet(config.capture_info.backreference_position, N, 0) >= 1

----------------------------------------------------------------------------
(* The shape of a pattern, read left to right without building anything:   *)
(* where a primary is expected every byte other than \ [ ( stands for      *)
(* itself; after a primary one quantifier may follow, then | or ) or the   *)
(* next primary.  depth counts the groups that are open.                   *)

\* The bytes after the first ']' of rest; << >> with closed FALSE if none.
RECURSIVE AfterBracket(_)
AfterBracket(rest) ==
  IF rest = << >> THEN [ closed |-> FALSE, rest |-> << >> ]
  ELSE IF Head(rest) = Ord("]") THEN [ closed |-> TRUE, rest |-> Tail(rest) ]
  ELSE AfterBracket(Tail(rest))

\* "ok", or the first defect met: "end" (the pattern ends where a primary
\* is expected), "escape" (a \ with nothing after it), "bracket" (a [ with
\* no ]), "group" (a ( with no )), "stray)" or "stray]".
RECURSIVE Shape(_, _, _)
Shape(rest, depth, expect) ==
  IF rest = << >>
  THEN IF expect = "primary" THEN "end"
       ELSE IF depth > 0 THEN "group" ELSE "ok"
  ELSE
    LET c == Head(rest)
    IN CASE expect = "primary" ->
              IF c = Ord("\\")
              THEN IF Tail(rest) = << >> THEN "escape"
                   ELSE Shape(Tail(Tail(rest)), depth, "quantifier")
              ELSE IF c = Ord("[")
              THEN LET body == IF Tail(rest) # << >> /\ Head(Tail(rest)) = Ord("^")
                               THEN Tail(Tail(rest)) ELSE Tail(rest)
                   IN IF AfterBracket(body).closed
                      THEN Shape(AfterBracket(body).rest, depth, "quantifier")
                      ELSE "bracket"
              ELSE IF c = Ord("(") THEN Shape(Tail(rest), depth + 1, "primary")
              ELSE Shape(Tail(rest), depth, "quantifier")
         [] expect = "quantifier" ->
              IF c \in { Ord("*"), Ord("+"), Ord("?") }
              THEN Shape(Tail(rest), depth, "operator")
              ELSE Shape(rest, depth, "operator")
         [] OTHER ->
              IF c = Ord("|") THEN Shape(Tail(rest), depth, "primary")
              ELSE IF c = Ord(")")
              THEN IF depth > 0 THEN Shape(Tail(rest), depth - 1, "quantifier")
                   ELSE "stray)"
              ELSE IF c = Ord("]") THEN "stray]"
              ELSE Shape(rest, depth, "primary")

PatternShape(p) == IF p = << >> THEN "ok" ELSE Shape(p, 0, "primary")

\* compile_regex_to_nfa has run.
Compiled == pc # "compile"

\* C12: compile_regex_to_nfa fails with an error, and returns no NFA, for
\* every pattern that ends where a primary is expected, ends in a lone \,
\* has a [ with no closing ], or has a ( with no closing ).
C12_MalformedPatternsFail ==
  (Compiled /\ PatternShape(pattern) \in {"end", "escape", "bracket", "group"}) =>
     /\ nfa.error # NoError
     /\ nfa.start_state = NullState
     /\ pc = "error"

\* C12 witness: a group left open after an alternation was rejected.
C12_Witness ==
  /\ pc = "error"
  /\ PatternShape(pattern) = "group"
  /\ \E i \in 1..Len(pattern) : pattern[i] = Ord("|")

\* The first ) met while no group is open ("stray)"), or the first ] that
\* is outside a bracket expression ("stray]"); "none" when there is neither.
\* An escaped byte and the bytes of a bracket expression are skipped.
RECURSIVE StrayCloser(_, _)
StrayCloser(rest, depth) ==
  IF rest = << >> THEN "none"
  ELSE
    LET c == Head(rest)
    IN IF c = Ord("\\")
       THEN IF Tail(rest) = << >> THEN "none" ELSE StrayCloser(Tail(Tail(rest)), depth)
       ELSE IF c = Ord("[")
       THEN LET body == IF Tail(rest) # << >> /\ Head(Tail(rest)) = Ord("^")
                        THEN Tail(Tail(rest)) ELSE Tail(rest)
            IN IF AfterBracket(body).closed
               THEN StrayCloser(AfterBracket(body).rest, depth)
               ELSE "none"
       ELSE IF c = Ord("(") THEN StrayCloser(Tail(rest), depth + 1)
       ELSE IF c = Ord(")")
       THEN IF depth > 0 THEN StrayCloser(Tail(rest), depth - 1) ELSE "stray)"
       ELSE IF c = Ord("]") THEN "stray]"
       ELSE StrayCloser(Tail(rest), depth)

\* C13: a ) that closes no open group, or a ] that closes no bracket
\* expression, anywhere in the pattern makes compile_regex_to_nfa fail with
\* Unmatched ')' or Unmatched ']': no such pattern compiles.
C13_StrayCloserIsRejected ==
  Compiled =>
    /\ StrayCloser(pattern, 0) = "stray)" => nfa.error = "Unmatched ')'"
    /\ StrayCloser(pattern, 0) = "stray]" => nfa.error = "Unmatched ']'"

----------------------------------------------------------------------------
(* The active set.                                                         *)

\* No two entries of active_states have the same state and equal captures.
NoDuplicates(active_states) ==
  \A i, j \in 1..Len(active_states) :
     active_states[i] = active_states[j] => i = j

\* C14: after every seeding and after every simulator step current_states
\* holds no duplicates: no two entries have the same NFA state and equal
\* capture snapshots.
C14_ActiveSetHasNoDuplicates ==
  pc \in {"scan", "done"} => NoDuplicates(current_states)

----------------------------------------------------------------------------
(* Termination.                                                            *)

\* The Split states reached from the states of frontier over Split states
\* only.
RECURSIVE SplitReachable(_, _, _)
SplitReachable(heap, frontier, seen) ==
  LET fresh == { q \in frontier : q # NullState /\ heap[q].character_code = OPCODE_SPLIT }
                  \ seen
  IN IF fresh = {} THEN seen
     ELSE SplitReachable(heap,
                         UNION { { heap[q].primary_transition, heap[q].alternative_transition }
                                 : q \in fresh },
                         seen \cup fresh)

\* The NFA has a cycle made of Split states only.
HasSplitCycle(heap) ==
  \E q \in 1..Len(heap) :
     /\ heap[q].character_code = OPCODE_SPLIT
     /\ q \in SplitReachable(heap, { heap[q].primary_transition,
                                     heap[q].alternative_transition }, {})

\* One call of add_state_with_epsilon_closure from state q: every state is
\* expanded at most once, so what it adds are distinct states, none of them
\* a Split, exactly the visited states that are not Splits.
ClosureExpandsEachStateOnce(heap, q) ==
  LET r == add_state_with_epsilon_closure(heap, q, CaptureGroupInfo, << >>, {})
      added == StatesOf(r.active_states)
  IN /\ r.visited_states \subseteq 1..Len(heap)
     /\ \A i, j \in 1..Len(added) : added[i] = added[j] => i = j
     /\ { added[i] : i \in 1..Len(added) }
           = { v \in r.visited_states : ~IsEpsilonState(heap[v]) }
     /\ Len(added) <= Len(heap)

\* The loop iterations match_text_with_positions can still make, counting
\* the compilation and the seeding as one step each.
StepsLeft ==
  CASE pc = "compile" -> Len(input_text) + 3
    [] pc = "seed" -> Len(input_text) + 2
    [] pc = "scan" -> Len(input_text) + 1 - character_index
    [] OTHER -> 0

\* C15: the epsilon closure terminates for every compiled NFA, cycles of
\* Split states included: one call expands each state at most once; and
\* matching a line of n bytes takes at most n + 1 loop iterations: the loop
\* index stays within 0..n and every iteration returns or moves to the
\* next byte, until the function has returned.
C15_ClosureAndMatchTerminate ==
  /\ [](pc = "seed" =>
          \A q \in 1..Len(nfa.heap) : ClosureExpandsEachStateOnce(nfa.heap, q))
  /\ [](pc = "scan" => character_index <= Len(input_text))
  /\ [](StepsLeft >= 0 /\ (StepsLeft = 0 <=> pc \in {"done", "error"}))
  /\ [][StepsLeft' < StepsLeft]_vars
  /\ [][pc = "scan" => (pc' = "done" \/ character_index' = character_index + 1)]_vars

\* C15 witness: a line of several bytes was matched to its end on an NFA
\* that has a cycle of Split states.
C15_Witness ==
  /\ Returned
  /\ HasSplitCycle(nfa.heap)
  /\ Len(input_text) >= 2
  /\ character_index = Len(input_text)

----------------------------------------------------------------------------
(* Accesses.                                                               *)

\* The offsets a configuration keeps into captured texts are inside them:
\* backref_pos[N] is 0, or text[N] exists and is longer than backref_pos[N].
BackrefPositionsInRange(capture_info) ==
  \A N \in DOMAIN capture_info.backreference_position :
     LET p == capture_info.backreference_position[N]
     IN \/ p = 0
        \/ /\ N \in DOMAIN capture_info.captured_text
           /\ 0 < p /\ p < Len(capture_info.captured_text[N])

\* C16: match_text_with_positions makes no out-of-range access: the offset
\* a backreference step uses into the captured text is smaller than its
\* length, every active state is a state of the NFA, the loop index is at
\* most |T|, and a reported span satisfies 0 <= start <= end <= |T|, which
\* makes the three substr calls of print_with_color valid.
C16_NoOutOfRangeAccess ==
  /\ pc \in {"scan", "done"} =>
       \A k \in 1..Len(current_states) :
          /\ current_states[k].nfa_state \in 1..Len(nfa.heap)
          /\ BackrefPositionsInRange(current_states[k].capture_info)
  /\ pc = "scan" => character_index <= Len(input_text)
  /\ (Returned /\ result.found) =>
       /\ 0 <= result.start_pos
       /\ result.start_pos <= result.end_pos
       /\ result.end_pos <= Len(input_text)

\* C16 witness: a match that used a backreference was reported after a
\* restart and before the end of the line.
C16_Witness ==
  /\ Returned /\ result.found
  /\ 0 < result.start_pos
  /\ result.start_pos < result.end_pos
  /\ result.end_pos < Len(input_text)
  /\ \E k \in 1..Len(current_states) :
        DOMAIN current_states[k].capture_info.backreference_position # {}

----------------------------------------------------------------------------
(* The program.                                                            *)

\* main has returned.
Exited == main_pc = "exited"

\* The lines of a stream, as successive getline calls return them.
RECURSIVE LinesOf(_)
LinesOf(stream) ==
  IF stream = << >> THEN << >>
  ELSE << getline(stream).line >> \o LinesOf(getline(stream).rest)

\* The lines of the files of a list that can be opened, in order.
RECURSIVE LinesOfFiles(_)
LinesOfFiles(paths) ==
  IF paths = << >> THEN << >>
  ELSE (IF is_open(Head(paths)) THEN LinesOf(FileBytes(Head(paths))) ELSE << >>)
       \o LinesOfFiles(Tail(paths))

\* The matcher finds the pattern main compiled in the line.
LineMatches(line) == match_text_with_nfa(compiled_nfa_start, line) = 1

\* main ended on an argument error or a pattern error.
EndedOnError ==
  \/ ArgumentLoop(argv, 1, ArgumentDefaults).error # ""
  \/ Len(argv) = 0
  \/ ~ArgumentLoop(argv, 1, ArgumentDefaults).found_extended_regex_flag
  \/ ArgumentLoop(argv, 1, ArgumentDefaults).regex_pattern_string = << >>
  \/ compiled_nfa_start.error # NoError

\* C17: the exit code is 0 exactly when at least one input line, read from
\* standard input or from a searched file, matched the pattern; it is 1
\* when no line matched and on every argument or pattern error.
C17_ExitCodeTellsWhetherALineMatched ==
  Exited =>
    /\ exit_code \in {0, 1}
    /\ exit_code = 0 <=> (\E k \in 1..Len(lines_read) : LineMatches(lines_read[k]))
    /\ EndedOnError => exit_code = 1
    /\ (~EndedOnError /\ files_to_search # << >>) =>
          lines_read = LinesOfFiles(files_to_search)
    /\ (~EndedOnError /\ arguments.target_file_paths = << >>) =>
          stdin = << >>

\* C17 witness: two files were searched, a line matched after a line that
\* did not, and main returned 0.
C17_Witness ==
  /\ Exited
  /\ exit_code = 0
  /\ Len(files_to_search) = 2
  /\ \E k \in 2..Len(lines_read) :
        /\ LineMatches(lines_read[k])
        /\ \E j \in 1..(k - 1) : ~LineMatches(lines_read[j])

\* The argument list holds -E exactly once, at position i, followed by
\* another argument.
OnlyFlagAt(i) ==
  /\ i \in 1..(Len(argv) - 1)
  /\ argv[i] = ArgE
  /\ \A j \in 1..Len(argv) : j # i => argv[j] # ArgE

\* There is no -E among the arguments.
MissingFlag == \A i \in 1..Len(argv) : argv[i] # ArgE

\* The last argument is a -E that is not itself the pattern of a -E.
MissingPatternAfterFlag ==
  /\ Len(argv) >= 1
  /\ argv[Len(argv)] = ArgE
  /\ (Len(argv) = 1 \/ argv[Len(argv) - 1] # ArgE)

\* The pattern given is the empty string.
EmptyPatternGiven == \E i \in 1..Len(argv) : OnlyFlagAt(i) /\ argv[i + 1] = << >>

\* The pattern given does not compile.
PatternSyntaxError ==
  \E i \in 1..Len(argv) :
     /\ OnlyFlagAt(i)
     /\ argv[i + 1] # << >>
     /\ compile_regex_to_nfa(argv[i + 1]).error # NoError

\* C18: a pattern syntax error is reported exactly once and main returns 1
\* before any line is read or matched and before anything is written to
\* standard output; so do a missing -E, a missing pattern after -E and an
\* empty pattern.  No line is ever processed unless the pattern compiled.
C18_ErrorsEndTheRunBeforeAnyLine ==
  /\ (Exited /\ (PatternSyntaxError \/ MissingFlag \/ MissingPatternAfterFlag
                 \/ EmptyPatternGiven)) =>
        /\ exit_code = 1
        /\ Len(stderr) = 1
        /\ lines_read = << >>
        /\ reported = << >>
        /\ stdout = << >>
        /\ files_to_search = << >>
        /\ input_file_stream = << >>
  /\ (lines_read # << >> \/ stdout # << >> \/ main_pc \in {"stdin", "files", "open", "read"}) =>
        /\ ~(PatternSyntaxError \/ MissingFlag \/ MissingPatternAfterFlag \/ EmptyPatternGiven)
        /\ compiled_nfa_start.error = NoError
        /\ compiled_nfa_start.start_state # NullState
        /\ stderr = << >> \/ main_pc \in {"open", "read", "exited"}

\* C18 witness: a pattern that does not compile ended a run that had a
\* file to search and bytes waiting on standard input.
C18_Witness ==
  /\ Exited
  /\ PatternSyntaxError
  /\ Len(argv) >= 3
  /\ stdin # << >>
  /\ stderr = << "Regex parsing error: " >>

----------------------------------------------------------------------------
(* The reporter.                                                           *)

\* The lines read so far that the matcher finds the pattern in, in order.
MatchingLines == SelectSeq(lines_read, LineMatches)

\* The span the matcher reports for a line.
SpanOf(line) == match_text_with_positions(compiled_nfa_start, line)

\* s ends with the bytes of suffix.
EndsWith(s, suffix) ==
  /\ Len(suffix) <= Len(s)
  /\ SubSeq(s, Len(s) - Len(suffix) + 1, Len(s)) = suffix

\* s with every occurrence of the byte sequence removed.
RECURSIVE RemoveAll(_, _)
RemoveAll(s, bytes) ==
  IF s = << >> THEN << >>
  ELSE IF Len(bytes) <= Len(s) /\ SubSeq(s, 1, Len(bytes)) = bytes
       THEN RemoveAll(SubSeq(s, Len(bytes) + 1, Len(s)), bytes)
       ELSE << Head(s) >> \o RemoveAll(Tail(s), bytes)

\* line[0..start) + ESC[1;31m + line[start..end) + ESC[0m + line[end..].
Painted(line, start_pos, end_pos) ==
  SubSeq(line, 1, start_pos)
  \o << 27, 91, 49, 59, 51, 49, 109 >>
  \o SubSeq(line, start_pos + 1, end_pos)
  \o << 27, 91, 48, 109 >>
  \o SubSeq(line, end_pos + 1, Len(line))

\* C19: standard output holds one newline-terminated record per matching
\* line, in order.  With color disabled the record is the line byte for
\* byte; with color enabled it is line[0..start) + ESC[1;31m +
\* line[start..end) + ESC[0m + line[end..], (start, end) being the span the
\* matcher reports; removing the two escape sequences from it gives the
\* line back.
C19_ReporterWritesLineOrPaintedLine ==
  /\ stdout # << >> => stdout[Len(stdout)] = 10
  /\ Len(LinesOf(stdout)) = Len(MatchingLines)
  /\ \A k \in 1..Len(MatchingLines) :
        IF arguments.use_color
        THEN /\ EndsWith(LinesOf(stdout)[k],
                         Painted(MatchingLines[k], SpanOf(MatchingLines[k]).start_pos,
                                 SpanOf(MatchingLines[k]).end_pos))
             /\ EndsWith(RemoveAll(RemoveAll(LinesOf(stdout)[k], COLOR_RED_BOLD),
                                   COLOR_RESET),
                         MatchingLines[k])
             /\ Len(RemoveAll(RemoveAll(LinesOf(stdout)[k], COLOR_RED_BOLD), COLOR_RESET))
                  = Len(LinesOf(stdout)[k]) - 11
        ELSE EndsWith(LinesOf(stdout)[k], MatchingLines[k])
             /\ RemoveAll(RemoveAll(LinesOf(stdout)[k], COLOR_RED_BOLD), COLOR_RESET)
                  = LinesOf(stdout)[k]

\* C19 witness: with color enabled a line was written whose match has
\* bytes of the line before it and after it.
C19_Witness ==
  /\ Exited
  /\ arguments.use_color
  /\ \E k \in 1..Len(MatchingLines) :
        /\ 0 < SpanOf(MatchingLines[k]).start_pos
        /\ SpanOf(MatchingLines[k]).start_pos < SpanOf(MatchingLines[k]).end_pos
        /\ SpanOf(MatchingLines[k]).end_pos < Len(MatchingLines[k])

\* What the reporter writes for the k-th reported line, without its newline.
RecordBody(k) ==
  IF arguments.use_color
  THEN Painted(reported[k].line, reported[k].match_info.start_pos,
               reported[k].match_info.end_pos)
  ELSE reported[k].line

\* <path>: for the k-th reported line.
PathAndColon(k) == reported[k].file_path \o << 58 >>

\* C20: a matching line is written with <path>: in front of it if and only
\* if it was read from a file and files_to_search has more than one entry;
\* lines read from standard input and lines of a single searched file are
\* written without any prefix.
C20_PrefixIffMoreThanOneFile ==
  /\ Len(LinesOf(stdout)) = Len(reported)
  /\ \A k \in 1..Len(reported) :
        /\ reported[k].from_file => reported[k].file_path # << >>
        /\ IF reported[k].from_file /\ Len(files_to_search) > 1
           THEN LinesOf(stdout)[k] = PathAndColon(k) \o RecordBody(k)
           ELSE LinesOf(stdout)[k] = RecordBody(k)
        /\ ~reported[k].from_file => files_to_search = << >>
        /\ reported[k].from_file =>
              \E i \in 1..Len(files_to_search) : files_to_search[i] = reported[k].file_path

\* C20 witness: two files were searched and a matching line of the second
\* one was written after its path.
C20_Witness ==
  /\ Exited
  /\ Len(files_to_search) = 2
  /\ files_to_search[1] # files_to_search[2]
  /\ \E k \in 1..Len(reported) :
        /\ reported[k].from_file
        /\ reported[k].file_path = files_to_search[2]
        /\ LinesOf(stdout)[k] = PathAndColon(k) \o RecordBody(k)

\* A single file was searched and its matching line written bare.
C20_SingleFileReached ==
  /\ Exited
  /\ Len(files_to_search) = 1
  /\ reported # << >>

----------------------------------------------------------------------------
(* The compiler and its history.                                           *)

\* The ids of the groups opened in the states of a heap.
GroupIdsOf(heap) == { heap[q].capture_group_start : q \in 1..Len(heap) } \ { -1 }

\* The results of two NFAs on every line of a set are the same.
SameResults(n1, n2, lines) ==
  \A T \in lines : match_text_with_positions(n1, T) = match_text_with_positions(n2, T)

\* C21: compilation is independent of history: two compilations of the same
\* pattern in one process, whatever was compiled (or rejected) in between,
\* give NFAs of the same structure with the same group ids, numbered from 1,
\* the ones a first compilation gives; the two NFAs have the same found and
\* span on every line.
C21_CompilationIsIndependentOfHistory ==
  /\ \A i \in 1..Len(compilations) :
        /\ compilations[i].nfa = compile_regex_to_nfa(compilations[i].regex_string)
        /\ GroupIdsOf(compilations[i].nfa.heap) =
             1..Cardinality(GroupIdsOf(compilations[i].nfa.heap))
  /\ \A i \in 1..Len(compilations) : \A j \in 1..Len(compilations) :
        compilations[i].regex_string = compilations[j].regex_string =>
           /\ compilations[i].nfa = compilations[j].nfa
           /\ compilations[i].nfa.error = NoError =>
                SameResults(compilations[i].nfa, compilations[j].nfa, CompilerTexts)

\* C21 witness: a pattern with a group and a backreference was compiled,
\* then a pattern that is rejected after two groups were opened, then the
\* first pattern again, which matches a line.
C21_Witness ==
  /\ Len(compilations) = 3
  /\ compilations[1].regex_string = compilations[3].regex_string
  /\ compilations[3].nfa.error = NoError
  /\ GroupIdsOf(compilations[3].nfa.heap) = {1}
  /\ \E q \in 1..Len(compilations[3].nfa.heap) :
        compilations[3].nfa.heap[q].character_code = OPCODE_BACKREF_START + 1
  /\ compilations[2].nfa.error # NoError
  /\ GroupIdsOf(compilations[2].nfa.heap) = {1, 2}
  /\ match_text_with_positions(compilations[3].nfa, Bytes(<<"b", "a", "a">>))
       = MatchInfo(TRUE, 1, 3)

----------------------------------------------------------------------------
(* The compiled NFA during simulation.                                     *)

\* main holds a compiled NFA that the simulator may have been run on.
SimulatorMayHaveRun ==
  \/ main_pc \in {"stdin", "files", "open", "read"}
  \/ Exited /\ compilations # << >> /\ compilations[1].nfa.error = NoError

\* The result of the matcher for a line on the graph exactly as
\* compile_regex_to_nfa returned it.
ResultOnReturnedGraph(line) == match_text_with_positions(compilations[1].nfa, line)

FoundOnReturnedGraph(line) == ResultOnReturnedGraph(line).found

\* C22: simulation never modifies the compiled NFA: after any number of
\* lines were matched, every field of every state of the graph main holds is
\* as compile_regex_to_nfa returned it, and the result reported for a line
\* is the result of matching that line on the returned graph, whatever lines
\* were matched before it.
C22_SimulationLeavesNFAUnchanged ==
  /\ Len(compilations) <= 1
  /\ SimulatorMayHaveRun =>
        /\ compilations # << >>
        /\ compilations[1].regex_string = arguments.regex_pattern_string
        /\ compiled_nfa_start = compilations[1].nfa
        /\ \A q \in 1..Len(compiled_nfa_start.heap) :
              compiled_nfa_start.heap[q].last_list_id = -1
        /\ Len(reported) = Len(SelectSeq(lines_read, FoundOnReturnedGraph))
        /\ \A k \in 1..Len(reported) :
              /\ reported[k].line = SelectSeq(lines_read, FoundOnReturnedGraph)[k]
              /\ reported[k].match_info = ResultOnReturnedGraph(reported[k].line)

\* C22 witness: three lines were matched one after the other on the same
\* NFA, the first and the last of them matching.
C22_Witness ==
  /\ Exited
  /\ Len(lines_read) = 3
  /\ Len(reported) = 2
  /\ FoundOnReturnedGraph(lines_read[1])
  /\ ~FoundOnReturnedGraph(lines_read[2])
  /\ FoundOnReturnedGraph(lines_read[3])
  /\ compiled_nfa_start = compilations[1].nfa

----------------------------------------------------------------------------
(* Seeding.                                                                *)

\* The loop of match_text_with_positions entered with current_states empty:
\* the only seeding is the one of the restart-on-empty rule.
LazilySeeded(n, T) == MatchLoop(n, T, << >>, 0, 0)

\* C23 as stated: for every compiled pattern and every line, the matcher
\* returns the same found and span whether current_states is seeded before
\* the loop or starts empty and is seeded by the restart-on-empty rule.
C23_LazySeedingGivesSameResult ==
  Returned => result = LazilySeeded(nfa, input_text)

\* C23 amended: the two seedings give the same found and span for every
\* pattern that is not anchored at start on every line that is not empty;
\* on the empty line, and for a pattern anchored at start, the restart rule
\* never seeds, so the lazily seeded matcher reports no match at all.
C23_LazySeedingAgreesOffAnchorAndEmptyLine ==
  Returned =>
    /\ (~is_anchored_at_start(nfa) /\ input_text # << >>) =>
          result = LazilySeeded(nfa, input_text)
    /\ (is_anchored_at_start(nfa) \/ input_text = << >>) =>
          ~LazilySeeded(nfa, input_text).found

\* C23 witness: a pattern that is not anchored matched a line after the
\* restart rule had seeded again, and the lazily seeded matcher agrees.
C23_Witness ==
  /\ Returned
  /\ ~is_anchored_at_start(nfa)
  /\ result.found
  /\ result.start_pos > 0
  /\ Len(seed_positions) > 1
  /\ LazilySeeded(nfa, input_text) = result

\* An anchored pattern has matched, and so has a pattern on the empty line.
C23_SeedingMatters ==
  /\ Returned
  /\ result.found
  /\ is_anchored_at_start(nfa) \/ input_text = << >>

----------------------------------------------------------------------------
(* Backreferences in src/src/Server.cpp.                                   *)

GroupThenBackrefOne == Bytes(<<"(", "a", ")", "\\", "1">>)

\* C24: in the engine of Server.cpp \1 refers to the first group of the
\* pattern: with the pattern (a)\1 compiled by regex2nfa, matchEpsilonNFA
\* returns 1 on the line aa.
C24_BackrefOneIsFirstGroup ==
  pattern_str = GroupThenBackrefOne =>
    \A k \in 1..Len(line_results) :
      line_results[k].line = Bytes(<<"a", "a">>) => line_results[k].matched = 1

----------------------------------------------------------------------------
(* Backreferences and the place of their group in the pattern.  States are *)
(* allocated in parse order, the capture_start_state of a group when its   *)
(* ( is read, so a group was opened earlier than a state when its          *)
(* capture_start_state has the smaller index.                              *)

OpenedEarlier(heap, q, N) ==
  \E o \in 1..(q - 1) : heap[o].capture_group_start = N

\* The configuration is on a Backref(N) state whose group N is opened later
\* in the pattern or not at all.
OnForwardBackref(heap, config) ==
  /\ IsBackrefState(heap[config.nfa_state])
  /\ ~OpenedEarlier(heap, config.nfa_state,
                    heap[config.nfa_state].character_code - OPCODE_BACKREF_START)

\* C25: a path on a Backref(N) state whose group N is opened later in the
\* pattern than the backreference, or not at all, never advances: whatever
\* the byte, the step leaves nothing of it, under a repetition too.
C25_ForwardBackrefNeverAdvances ==
  pc = "scan" =>
    \A k \in 1..Len(current_states) :
      OnForwardBackref(nfa.heap, current_states[k]) =>
        \A c \in ProbeBytes :
          process_character_step(nfa.heap, << current_states[k] >>, c) = << >>

\* A path stands on a backreference to a group opened later in the pattern
\* (none of them ever moves on if the claim holds).
C25_ForwardBackrefReached ==
  /\ pc = "scan"
  /\ \E k \in 1..Len(current_states) : OnForwardBackref(nfa.heap, current_states[k])

----------------------------------------------------------------------------
(* The step of a backreference on one byte.                                *)

\* What a configuration on a Backref(N) state leaves of the byte b when the
\* text of group N is taken as it is before b is appended to any group.
BackrefStepOnTextBefore(heap, config, b) ==
  LET N == heap[config.nfa_state].character_code - OPCODE_BACKREF_START
      captured == MapGet(config.capture_info.captured_text, N, << >>)
      p == MapGet(config.capture_info.backreference_position, N, 0)
      appended == PushToActiveGroups(config.capture_info, b)
  IN IF captured = << >> \/ p >= Len(captured) \/ captured[p + 1] # b
     THEN << >>
     ELSE IF p + 1 = Len(captured)
     THEN add_state_with_epsilon_closure(
            heap, heap[config.nfa_state].primary_transition,
            [appended EXCEPT !.backreference_position = MapPut(@, N, 0)],
            << >>, {}).active_states
     ELSE << [ nfa_state |-> config.nfa_state,
               capture_info |-> [appended EXCEPT !.backreference_position =
                                   MapPut(@, N, p + 1)] ] >>

\* C26: a Backref(N) step on byte b, with captured the text of group N
\* before b is appended anywhere and p the backreference position: the path
\* dies if captured is empty or captured[p] differs from b; if p + 1 is the
\* length of captured the position is reset, b is appended to every active
\* group and the closure of the successor is emitted; otherwise the position
\* becomes p + 1 and the same state is emitted again.  Group N may itself
\* be active on the path.
C26_BackrefStepUsesTextBeforeAppend ==
  pc = "scan" =>
    \A k \in 1..Len(current_states) :
      IsBackrefState(nfa.heap[current_states[k].nfa_state]) =>
        \A b \in ProbeBytes :
          process_character_step(nfa.heap, << current_states[k] >>, b)
            = BackrefStepOnTextBefore(nfa.heap, current_states[k], b)

----------------------------------------------------------------------------
(* Quantifiers.                                                            *)

\* The whole of w is in the language of the pattern compiled to n.
Accepts(n, w) == AcceptsSpan(n, w, 0, Len(w))

\* w is a concatenation of zero or more strings accepted by n.
RECURSIVE InStar(_, _)
InStar(n, w) ==
  \/ w = << >>
  \/ \E k \in 1..Len(w) :
        Accepts(n, SubSeq(w, 1, k)) /\ InStar(n, SubSeq(w, k + 1, Len(w)))

\* w is a concatenation of one or more strings accepted by n.
InPlus(n, w) ==
  \E k \in 0..Len(w) :
     Accepts(n, SubSeq(w, 1, k)) /\ InStar(n, SubSeq(w, k + 1, Len(w)))

\* The pattern is a primary of QuantifierPrimaries followed by a quantifier.
IsQuantifiedPrimary(p) ==
  /\ Len(p) >= 2
  /\ p[Len(p)] \in Quantifiers
  /\ SubSeq(p, 1, Len(p) - 1) \in QuantifierPrimaries

\* What the quantifier q makes of the language of the primary compiled to
\* nX, told of the string w.
QuantifiedAccepts(nX, q, w) ==
  CASE q = Ord("?") -> w = << >> \/ Accepts(nX, w)
    [] q = Ord("*") -> InStar(nX, w)
    [] q = Ord("+") -> InPlus(nX, w)

\* C27: for a primary X, X? accepts zero or one X, X* zero or more, X+ one
\* or more and never zero, its start being the start of X; a*b on aaab
\* reports (0,4), (a|b)+c on ababbc reports (0,6), and a+ matches no line
\* without an a.
C27_QuantifiersAreThompson ==
  /\ (Compiled /\ IsQuantifiedPrimary(pattern)) =>
       LET X == SubSeq(pattern, 1, Len(pattern) - 1)
           q == pattern[Len(pattern)]
       IN /\ nfa.error = NoError
          /\ Accepts(nfa, input_text)
               <=> QuantifiedAccepts(compile_regex_to_nfa(X), q, input_text)
          /\ q = Ord("+") => nfa.start_state = compile_regex_to_nfa(X).start_state
  /\ (Returned /\ pattern = Pattern(<<"a", "*", "b">>)
               /\ input_text = Text(<<"a", "a", "a", "b">>)) =>
       result = MatchInfo(TRUE, 0, 4)
  /\ (Returned /\ pattern = Pattern(<<"(", "a", "|", "b", ")", "+", "c">>)
               /\ input_text = Text(<<"a", "b", "a", "b", "b", "c">>)) =>
       result = MatchInfo(TRUE, 0, 6)
  /\ (Returned /\ pattern = Pattern(<<"a", "+">>)
               /\ \A i \in 1..Len(input_text) : input_text[i] # Ord("a")) =>
       ~result.found

\* C27 witness: a group under + has accepted a line of several repetitions
\* that the group alone does not accept.
C27_Witness ==
  /\ Returned
  /\ IsQuantifiedPrimary(pattern)
  /\ pattern[Len(pattern)] = Ord("+")
  /\ pattern[1] = Ord("(")
  /\ Len(input_text) >= 2
  /\ Accepts(nfa, input_text)
  /\ ~Accepts(compile_regex_to_nfa(SubSeq(pattern, 1, Len(pattern) - 1)), input_text)

----------------------------------------------------------------------------
(* Alternation and concatenation.                                          *)

\* The pieces of p between its '|' bytes, the piece in progress being piece.
RECURSIVE PiecesFrom(_, _)
PiecesFrom(rest, piece) ==
  IF rest = << >> THEN { piece }
  ELSE IF Head(rest) = Ord("|") THEN { piece } \cup PiecesFrom(Tail(rest), << >>)
  ELSE PiecesFrom(Tail(rest), Append(piece, Head(rest)))

Pieces(p) == PiecesFrom(p, << >>)

\* p is made of letters and '|' only.
IsAlternationOfLiterals(p) ==
  \A i \in 1..Len(p) :
     p[i] = Ord("|") \/ p[i] \in Ord("a")..Ord("z")

\* C28: concatenation binds tighter than alternation, and alternation
\* chains over whole concatenations: a pattern of letter strings joined by
\* '|' accepts exactly those strings (ab|cd accepts ab and cd, never acd or
\* abd; a|bc|d accepts a, bc and d); ab|cd on xycdxy reports (2,4).
C28_AlternationOfConcatenations ==
  /\ (Compiled /\ IsAlternationOfLiterals(pattern) /\ << >> \notin Pieces(pattern)) =>
       /\ nfa.error = NoError
       /\ Accepts(nfa, input_text) <=> input_text \in Pieces(pattern)
  /\ (Returned /\ pattern = Pattern(<<"a", "b", "|", "c", "d">>)
               /\ input_text = Text(<<"x", "y", "c", "d", "x", "y">>)) =>
       result = MatchInfo(TRUE, 2, 4)

\* C28 witness: a|bc|d was compiled and the line is one of acd, abd, abcd,
\* which it does not accept, or bc, which it does.
C28_Witness ==
  /\ Returned
  /\ pattern = Pattern(<<"a", "|", "b", "c", "|", "d">>)
  /\ \/ input_text = Text(<<"b", "c">>) /\ Accepts(nfa, input_text)
     \/ input_text = Text(<<"a", "b", "c">>) /\ ~Accepts(nfa, input_text)

----------------------------------------------------------------------------
(* Group ids.  The pattern is read left to right: an escape is two bytes,  *)
(* a bracket expression runs to its first ']', every other byte is one     *)
(* byte; a '(' outside them opens a group and an escaped digit is a        *)
(* backreference.  The heap is read in allocation order, which is parse    *)
(* order: capture_start_state is allocated when the '(' is read.           *)

GroupToken(id) == [ kind |-> "group", id |-> id ]
BackrefToken(id) == [ kind |-> "backref", id |-> id ]

\* The groups and backreferences of a pattern in the order they are
\* written, the groups numbered from next on.
RECURSIVE PatternTokens(_, _)
PatternTokens(rest, next) ==
  IF rest = << >> THEN << >>
  ELSE IF Head(rest) = Ord("\\")
  THEN IF Tail(rest) = << >> THEN << >>
       ELSE IF isdigit(Head(Tail(rest)))
       THEN << BackrefToken(Head(Tail(rest)) - Ord("0")) >>
              \o PatternTokens(Tail(Tail(rest)), next)
       ELSE PatternTokens(Tail(Tail(rest)), next)
  ELSE IF Head(rest) = Ord("[")
  THEN PatternTokens(AfterBracket(IF Tail(rest) # << >> /\ Head(Tail(rest)) = Ord("^")
                                  THEN Tail(Tail(rest)) ELSE Tail(rest)).rest,
                     next)
  ELSE IF Head(rest) = Ord("(")
  THEN << GroupToken(next) >> \o PatternTokens(Tail(rest), next + 1)
  ELSE PatternTokens(Tail(rest), next)

\* The group-open markers and the Backref states of a heap from state q on.
RECURSIVE HeapTokens(_, _)
HeapTokens(heap, q) ==
  IF q > Len(heap) THEN << >>
  ELSE IF heap[q].capture_group_start >= 0
  THEN << GroupToken(heap[q].capture_group_start) >> \o HeapTokens(heap, q + 1)
  ELSE IF IsBackrefState(heap[q])
  THEN << BackrefToken(heap[q].character_code - OPCODE_BACKREF_START) >>
         \o HeapTokens(heap, q + 1)
  ELSE HeapTokens(heap, q + 1)

NestedGroups == Pattern(<<"(", "(", "a", ")", "b", ")">>)
NestedGroupsReferred == Pattern(<<"(", "(", "a", ")", "b", ")", "\\", "2", "\\", "1">>)

\* C29: group ids are 1, 2, 3, ... in the order of the '(' of the pattern,
\* and \d compiles to a Backref state for the group with id d; in ((a)b)
\* the outer group is 1 and the inner group is 2.
C29_GroupIdsFollowOpeningParentheses ==
  (Compiled /\ nfa.error = NoError) =>
    /\ HeapTokens(nfa.heap, 1) = PatternTokens(pattern, 1)
    /\ pattern = NestedGroups =>
         /\ nfa.heap[nfa.start_state].capture_group_start = 1
         /\ nfa.heap[nfa.heap[nfa.start_state].primary_transition].capture_group_start = 2
    /\ pattern = NestedGroupsReferred =>
         /\ Accepts(nfa, Text(<<"a", "b", "a", "a", "b">>))
         /\ ~Accepts(nfa, Text(<<"a", "b", "a", "b", "a">>))

\* C29 witness: a pattern with a group inside a group and a backreference
\* to the inner one was compiled.
C29_Witness ==
  /\ Compiled
  /\ nfa.error = NoError
  /\ pattern = NestedGroupsReferred
  /\ HeapTokens(nfa.heap, 1) =
       << GroupToken(1), GroupToken(2), BackrefToken(2), BackrefToken(1) >>

----------------------------------------------------------------------------
(* The group markers on the paths of the compiled NFA.  A path follows     *)
(* primary_transition and alternative_transition.                          *)

Successors(heap, q) ==
  { heap[q].primary_transition, heap[q].alternative_transition } \ { NullState }

\* The states a path from a state of frontier can be on, no path entering a
\* state of avoided.
RECURSIVE ReachableAvoiding(_, _, _, _)
ReachableAvoiding(heap, frontier, reached, avoided) ==
  IF frontier \ avoided = {} THEN reached
  ELSE ReachableAvoiding(
         heap,
         (UNION { Successors(heap, q) : q \in frontier \ avoided })
           \ (reached \cup frontier \cup avoided),
         reached \cup (frontier \ avoided),
         avoided)

\* Some path from a state of from to the state to enters no state of avoided.
PathAvoiding(heap, from, to, avoided) ==
  to \in ReachableAvoiding(heap, from, {}, avoided)

AcceptStates(heap) ==
  { q \in 1..Len(heap) : heap[q].character_code = OPCODE_MATCHED }

OpenMarkers(heap, N) == { q \in 1..Len(heap) : heap[q].capture_group_start = N }
CloseMarkers(heap, N) == { q \in 1..Len(heap) : heap[q].capture_group_end = N }

\* Every path from the start state to an Accept enters the state m, and
\* none enters it twice.
OnEveryPathOnce(n, m) ==
  /\ \A acc \in AcceptStates(n.heap) : ~PathAvoiding(n.heap, { n.start_state }, acc, { m })
  /\ ~PathAvoiding(n.heap, Successors(n.heap, m), m, {})

\* C30 as stated: in every compiled NFA the group_open(N) marker and the
\* group_close(N) marker of every group N are each traversed exactly once
\* on any path from the start state to the Accept state.
C30_MarkersOnceOnEveryPath ==
  (Compiled /\ nfa.error = NoError) =>
    \A N \in GroupIdsOf(nfa.heap) :
      /\ \A o \in OpenMarkers(nfa.heap, N) : OnEveryPathOnce(nfa, o)
      /\ \A c \in CloseMarkers(nfa.heap, N) : OnEveryPathOnce(nfa, c)

\* On every path the markers of the group opened at o and closed at c
\* alternate, an open first and a close last: no path reaches c from the
\* start without o, o again from o without c, c again from c without o, or
\* an Accept from o without c.
MarkersAlternate(n, o, c) ==
  /\ ~PathAvoiding(n.heap, { n.start_state }, c, { o })
  /\ ~PathAvoiding(n.heap, Successors(n.heap, o), o, { c })
  /\ ~PathAvoiding(n.heap, Successors(n.heap, c), c, { o })
  /\ \A acc \in AcceptStates(n.heap) :
        ~PathAvoiding(n.heap, Successors(n.heap, o), acc, { c })

\* C30, amended: in every compiled NFA exactly one state carries
\* group_open(N) and exactly one carries group_close(N), for every group N,
\* and on any path from the start state to the Accept state the two are
\* traversed in turn, open first and close last (zero times, once or more).
C30_MarkersUniqueAndAlternating ==
  (Compiled /\ nfa.error = NoError) =>
    \A N \in GroupIdsOf(nfa.heap) :
      /\ Cardinality(OpenMarkers(nfa.heap, N)) = 1
      /\ Cardinality(CloseMarkers(nfa.heap, N)) = 1
      /\ \A o \in OpenMarkers(nfa.heap, N) : \A c \in CloseMarkers(nfa.heap, N) :
            MarkersAlternate(nfa, o, c)

\* C30 witness: a compiled NFA with a group that a path to the Accept state
\* goes round more than once and another path does not enter.
C30_Witness ==
  /\ Compiled
  /\ nfa.error = NoError
  /\ \E N \in GroupIdsOf(nfa.heap) : \E o \in OpenMarkers(nfa.heap, N) :
        /\ PathAvoiding(nfa.heap, Successors(nfa.heap, o), o, {})
        /\ \E acc \in AcceptStates(nfa.heap) :
              PathAvoiding(nfa.heap, { nfa.start_state }, acc, { o })

----------------------------------------------------------------------------
(* The bytes a path has consumed, kept beside the path.  A trace holds,    *)
(* for every group whose group_open the path has passed, the bytes         *)
(* consumed since the most recent pass (since), and what since was when    *)
(* the path last passed the group_close (at_close).  The traces follow the *)
(* paths of the simulator state by state; the captured texts are not       *)
(* looked at to build them.                                                *)

NoTrace == [ since |-> EmptyMap, at_close |-> EmptyMap ]

\* The trace after the path has entered the state st.
TraceThrough(st, trace) ==
  IF st.capture_group_start >= 0
  THEN [trace EXCEPT !.since = MapPut(@, st.capture_group_start, << >>)]
  ELSE IF st.capture_group_end >= 0
  THEN [trace EXCEPT !.at_close =
          MapPut(@, st.capture_group_end, MapGet(trace.since, st.capture_group_end, << >>))]
  ELSE trace

\* The trace after the path has consumed the byte b.
TraceConsumed(trace, b) ==
  [trace EXCEPT !.since = [g \in DOMAIN @ |-> Append(@[g], b)]]

\* The states the closure of state_to_add emits, in its order, each with
\* the trace of the path that led to it.
RECURSIVE TracedClosure(_, _, _, _, _)
TracedClosure(heap, state_to_add, trace, emitted, visited_states) ==
  IF state_to_add = NullState \/ state_to_add \in visited_states
  THEN [ emitted |-> emitted, visited_states |-> visited_states ]
  ELSE IF IsEpsilonState(heap[state_to_add])
  THEN TracedClosure(
         heap, heap[state_to_add].alternative_transition,
         TraceThrough(heap[state_to_add], trace),
         TracedClosure(heap, heap[state_to_add].primary_transition,
                       TraceThrough(heap[state_to_add], trace), emitted,
                       visited_states \cup { state_to_add }).emitted,
         TracedClosure(heap, heap[state_to_add].primary_transition,
                       TraceThrough(heap[state_to_add], trace), emitted,
                       visited_states \cup { state_to_add }).visited_states)
  ELSE [ emitted |-> Append(emitted, [ nfa_state |-> state_to_add,
                                       trace |-> TraceThrough(heap[state_to_add], trace) ]),
         visited_states |-> visited_states \cup { state_to_add } ]

\* The configurations of the simulator, each beside the trace of its path;
\* a configuration whose state is not the one its trace arrived at gets no
\* trace.
Traced(configs, emitted) ==
  [ k \in 1..Len(configs) |->
      [ nfa_state |-> configs[k].nfa_state,
        capture_info |-> configs[k].capture_info,
        trace |-> IF k <= Len(emitted) /\ emitted[k].nfa_state = configs[k].nfa_state
                  THEN emitted[k].trace ELSE NoTrace ] ]

Untraced(traced) ==
  [ k \in 1..Len(traced) |->
      [ nfa_state |-> traced[k].nfa_state, capture_info |-> traced[k].capture_info ] ]

\* The step left the configuration on its Backref state, in the middle of
\* the text it is matching.
StaysOnBackref(heap, config, after) ==
  /\ IsBackrefState(heap[config.nfa_state])
  /\ Len(after) = 1
  /\ after[1].nfa_state = config.nfa_state
  /\ MapGet(after[1].capture_info.backreference_position,
            heap[config.nfa_state].character_code - OPCODE_BACKREF_START, 0) > 0

\* What the step on byte b leaves of one traced configuration, after being
\* what process_character_step leaves of it.
TracedStepOf(heap, tc, b, after) ==
  IF after = << >> THEN << >>
  ELSE IF StaysOnBackref(heap, tc, after)
  THEN << [ nfa_state |-> tc.nfa_state,
            capture_info |-> after[1].capture_info,
            trace |-> TraceConsumed(tc.trace, b) ] >>
  ELSE Traced(after,
              TracedClosure(heap, heap[tc.nfa_state].primary_transition,
                            TraceConsumed(tc.trace, b), << >>, {}).emitted)

RECURSIVE TracedStep(_, _, _)
TracedStep(heap, traced, b) ==
  IF traced = << >> THEN << >>
  ELSE TracedStepOf(heap, Head(traced), b,
                    process_character_step(heap, Untraced(<< Head(traced) >>), b))
         \o TracedStep(heap, Tail(traced), b)

\* The traced configurations after T[i..e) was consumed from traced.
RECURSIVE TracedSpan(_, _, _, _, _)
TracedSpan(heap, traced, T, i, e) ==
  IF i >= e THEN traced
  ELSE TracedSpan(heap, TracedStep(heap, traced, T[i + 1]), T, i + 1, e)

\* The state the seeding at index s starts its closure from.
SeedOrigin(n) ==
  IF is_anchored_at_start(n) THEN n.heap[n.start_state].primary_transition
  ELSE n.start_state

\* The traced configurations of the attempt seeded at s, at index e.
TracedAttempt(n, T, s, e) ==
  TracedSpan(n.heap,
             Traced(StartAt(n, s),
                    TracedClosure(n.heap, SeedOrigin(n), NoTrace, << >>, {}).emitted),
             T, s, e)

\* The texts of the path are what its trace says: an active group holds
\* the bytes consumed since its group_open, a closed group the bytes
\* consumed between its group_open and its group_close.
TextsFollowTrace(tc) ==
  /\ DOMAIN tc.capture_info.captured_text = DOMAIN tc.trace.since
  /\ \A N \in DOMAIN tc.capture_info.captured_text :
        IF MapGet(tc.capture_info.is_actively_capturing, N, FALSE)
        THEN tc.capture_info.captured_text[N] = tc.trace.since[N]
        ELSE /\ N \in DOMAIN tc.trace.at_close
             /\ tc.capture_info.captured_text[N] = tc.trace.at_close[N]

\* C31: every consumed byte is appended exactly once to the text of every
\* group active on the path and to no other; when a path passes
\* group_close(N), text[N] is the bytes the path consumed since its most
\* recent group_open(N).
C31_TextIsBytesBetweenMarkers ==
  pc = "scan" =>
    /\ Untraced(TracedAttempt(nfa, input_text, match_start, character_index))
         = current_states
    /\ \A k \in 1..Len(current_states) :
          TextsFollowTrace(
            TracedAttempt(nfa, input_text, match_start, character_index)[k])

\* C31 witness: a path has closed a group on a byte or more and has
\* consumed bytes since the close, which the text of the group has not got.
C31_Witness ==
  /\ pc = "scan"
  /\ \E k \in 1..Len(current_states) :
        \E N \in DOMAIN current_states[k].capture_info.captured_text :
          /\ ~current_states[k].capture_info.is_actively_capturing[N]
          /\ Len(current_states[k].capture_info.captured_text[N]) >= 1
          /\ Len(TracedAttempt(nfa, input_text, match_start,
                                character_index)[k].trace.since[N])
               > Len(current_states[k].capture_info.captured_text[N])

----------------------------------------------------------------------------
(* The matcher on patterns with ^ in every position.                       *)

\* Longest pattern of the enumerated family.
MaxAnchorLen == 3

AnchorAlphabet == { Ord(c) : c \in {"a", "b", "^", "|", "*"} }

AnchorPatterns ==
  (StringsUpTo(AnchorAlphabet, MaxAnchorLen) \ { << >> })
    \cup { Bytes(t) : t \in
           { <<"a", "|", "^", "b">>,
             <<"^", "a", "|", "b">>,
             <<"(", "^", "a", ")">>,
             <<"(", "^", ")", "a">>,
             <<"^", "+", "a">>,
             <<"^", "?", "a">>,
             <<"(", "a", "|", "^", ")", "b">>,
             <<"a", "^", "*", "b">>,
             <<"^", "a", "^", "b">>,
             <<"^", "(", "^", "a", ")">> } }

AnchorTexts == StringsUpTo(TextAlphabet, MaxTextLen)

InitAnchors ==
  /\ pattern \in AnchorPatterns
  /\ input_text \in AnchorTexts
  /\ pc = "compile"
  /\ nfa = NoNFA
  /\ current_states = << >>
  /\ match_start = 0
  /\ character_index = 0
  /\ result = MatchInfo(FALSE, 0, 0)
  /\ seed_positions = << >>
  /\ MainIdle
  /\ CompilerStarted
  /\ ServerIdle

SpecAnchors == InitAnchors /\ [][Next]_vars

\* The AnchorStart states of the NFA other than its start state.
InnerAnchors(n) ==
  { q \in DOMAIN n.heap :
      n.heap[q].character_code = OPCODE_MATCH_START /\ q # n.start_state }

\* The NFA with nothing after its inner AnchorStart states.
WithoutInnerAnchorExits(n) ==
  [n EXCEPT !.heap =
     [ q \in DOMAIN n.heap |->
         IF q \in InnerAnchors(n)
         THEN [n.heap[q] EXCEPT !.primary_transition = NullState]
         ELSE n.heap[q] ]]

\* Every byte value a char can hold, as the model writes bytes.
AnyByte == 0..255

\* The configurations sitting on an inner AnchorStart state.
OnInnerAnchor(n, configs) ==
  { k \in 1..Len(configs) : configs[k].nfa_state \in InnerAnchors(n) }

\* C32: an AnchorStart state that is not the start state is not skipped at
\* seeding and advances on no byte, so that no path through it reaches
\* Accept: the matcher does what it does on the NFA with nothing after
\* these states.  Only a start state that is AnchorStart is skipped.
C32_InnerAnchorIsDead ==
  /\ pc = "scan" =>
        /\ \A k \in OnInnerAnchor(nfa, current_states) : \A b \in AnyByte :
              process_character_step(nfa.heap, << current_states[k] >>, b) = << >>
        /\ SeedStates(nfa) = SeedStates(WithoutInnerAnchorExits(nfa))
  /\ Returned /\ nfa.error = NoError =>
        result = match_text_with_positions(WithoutInnerAnchorExits(nfa), input_text)

\* C32 witness: after a byte was consumed a path sits on an AnchorStart
\* state that is not the start state and that has a successor, in a search
\* that is not anchored.
C32_Witness ==
  /\ pc = "scan"
  /\ character_index >= 1
  /\ ~is_anchored_at_start(nfa)
  /\ \E k \in OnInnerAnchor(nfa, current_states) :
        nfa.heap[current_states[k].nfa_state].primary_transition # NullState

----------------------------------------------------------------------------
(* The matcher on bracket expressions.                                     *)

\* Longest list between the brackets of the enumerated family.
MaxBracketLen == 3

BracketAlphabet == { Ord(c) : c \in {"a", "c", "-", "\\", "^"} }

BracketPatterns ==
  { << Ord("[") >> \o body \o << Ord("]") >> :
      body \in StringsUpTo(BracketAlphabet, MaxBracketLen) }
    \cup { Bytes(t) : t \in
           { <<"[", "^", "a", "-", "c", "]">>,
             <<"[", "a", "-", "c", "]", "*">>,
             <<"[", "a", "-", "c", "]", "b">>,
             <<"[", "\\", "]", "]">>,
             <<"[", "]", "a", "]">>,
             <<"[", "a", "b", "c">>,
             <<"[", "[", "a", "]">>,
             <<"[", "\\", "d", "]">>,
             <<"[", "0", "-", "9", "]", "+">> } }

BracketTexts ==
  StringsUpTo({ Ord(c) : c \in {"a", "b", "c", "-", "\\"} }, 2)
    \cup { Bytes(t) : t \in { <<"^">>, <<"5">>, <<"d">>, <<"]">>, <<"b", "b", "c">> } }

InitBrackets ==
  /\ pattern \in BracketPatterns
  /\ input_text \in BracketTexts
  /\ pc = "compile"
  /\ nfa = NoNFA
  /\ current_states = << >>
  /\ match_start = 0
  /\ character_index = 0
  /\ result = MatchInfo(FALSE, 0, 0)
  /\ seed_positions = << >>
  /\ MainIdle
  /\ CompilerStarted
  /\ ServerIdle

SpecBrackets == InitBrackets /\ [][Next]_vars

\* The bytes of p between its leading '[' and the first ']' after it.
RECURSIVE UpToCloser(_)
UpToCloser(rest) ==
  IF rest = << >> \/ Head(rest) = Ord("]") THEN << >>
  ELSE << Head(rest) >> \o UpToCloser(Tail(rest))

BetweenBrackets(p) == UpToCloser(Tail(p))

\* The pattern starts with a bracket expression that is closed.
StartsWithBracket(p) ==
  /\ p # << >>
  /\ Head(p) = Ord("[")
  /\ Len(BetweenBrackets(p)) < Len(p) - 1

IsNegatedBracket(p) ==
  BetweenBrackets(p) # << >> /\ Head(BetweenBrackets(p)) = Ord("^")

\* The bytes listed by the bracket expression p starts with.
ListedBytes(p) ==
  IF IsNegatedBracket(p)
  THEN { BetweenBrackets(p)[i] : i \in 2..Len(BetweenBrackets(p)) }
  ELSE { BetweenBrackets(p)[i] : i \in 1..Len(BetweenBrackets(p)) }

\* The bytes the bracket expression p starts with stands for.
BracketBytes(p) ==
  IF IsNegatedBracket(p) THEN AnyByte \ ListedBytes(p) ELSE ListedBytes(p)

\* The states compiled from bracket expressions.
BracketStates(heap) ==
  { q \in DOMAIN heap :
      heap[q].character_code \in { OPCODE_MATCH_CHOICE, OPCODE_MATCH_ANTI_CHOICE } }

\* The state of the first bracket expression of the pattern: the first
\* one allocated.
FirstBracketState(heap) ==
  CHOOSE q \in BracketStates(heap) : \A r \in BracketStates(heap) : q <= r

\* A configuration on state q advances on the byte b.
AdvancesOn(heap, q, b) ==
  process_character_step(heap, << [ nfa_state |-> q, capture_info |-> CaptureGroupInfo ] >>, b)
    # << >>

\* The pattern is one bracket expression and nothing else.
IsOneBracket(p) == StartsWithBracket(p) /\ Len(BetweenBrackets(p)) = Len(p) - 2

\* C33: a bracket expression is the list of the bytes between [ and the
\* first ] after it, a leading ^ negating it: no range and no escape is
\* processed.  Its state advances on the listed bytes and no other ([a-c]:
\* a, - and c), or on every byte not listed ([^a-c]), and a \ is a member.
C33_BracketIsLiteralList ==
  (Compiled /\ StartsWithBracket(pattern)) =>
    /\ nfa.error = NoError \/ Len(pattern) > Len(BetweenBrackets(pattern)) + 2
    /\ nfa.error = NoError =>
          /\ BracketStates(nfa.heap) # {}
          /\ (pc = "seed" /\ input_text = << >>) =>
                \A b \in AnyByte :
                  AdvancesOn(nfa.heap, FirstBracketState(nfa.heap), b)
                    <=> b \in BracketBytes(pattern)
          /\ (Returned /\ IsOneBracket(pattern)) =>
                /\ result.found <=>
                      \E i \in 1..Len(input_text) : input_text[i] \in BracketBytes(pattern)
                /\ result.found =>
                      /\ input_text[result.end_pos] \in BracketBytes(pattern)
                      /\ result.end_pos = result.start_pos + 1
                      /\ \A i \in 1..result.start_pos :
                            input_text[i] \notin BracketBytes(pattern)

\* C33 witness: [a-c] has run on a text with b before the first -, and the
\* match is the -.
C33_Witness ==
  /\ Returned
  /\ pattern = Bytes(<<"[", "a", "-", "c", "]">>)
  /\ input_text = Bytes(<<"b", "-">>)
  /\ result = MatchInfo(TRUE, 1, 2)

----------------------------------------------------------------------------
(* The compiler and the matcher on stacked and leading quantifiers.        *)

\* Longest pattern of the enumerated family.
MaxStackedLen == 3

StackedAlphabet == { Ord(c) : c \in {"a", "*", "+", "?", "|", "(", ")"} }

StackedPatterns ==
  StringsUpTo(StackedAlphabet, MaxStackedLen)
    \cup { Bytes(t) : t \in
           { <<"a", "*", "*", "*">>,
             <<"a", "+", "+", "b">>,
             <<"a", "?", "*", "+">>,
             <<"(", "*", "a", ")">>,
             <<"(", "a", ")", "*", "*">>,
             <<"a", "|", "+", "b">>,
             <<"(", "a", "|", "?", ")">> } }

StackedTexts ==
  StringsUpTo({ Ord(c) : c \in {"a", "*"} }, 2)
    \cup { Bytes(t) : t \in
           { <<"a", "a", "*">>, <<"a", "*", "*">>, <<"*", "a", "*">>, <<"+">>, <<"?">>,
             <<"a", "+">>, <<"b">> } }

InitStacked ==
  /\ pattern \in StackedPatterns
  /\ input_text \in StackedTexts
  /\ pc = "compile"
  /\ nfa = NoNFA
  /\ current_states = << >>
  /\ match_start = 0
  /\ character_index = 0
  /\ result = MatchInfo(FALSE, 0, 0)
  /\ seed_positions = << >>
  /\ MainIdle
  /\ CompilerStarted
  /\ ServerIdle

SpecStacked == InitStacked /\ [][Next]_vars

QuantifierBytes == { Ord("*"), Ord("+"), Ord("?") }

\* What a pattern over letters, quantifier characters, '|' and parentheses
\* reads as.  before is what the byte comes after: "start", a "primary"
\* (a literal or a closed group), a "quantifier", a "bar" or an "open"
\* parenthesis.  A primary is expected at the start, after a bar and after
\* an open parenthesis; the byte found there is a literal whatever it is,
\* '(' excepted.  A quantifier character is a quantifier after a primary
\* only.  The literals are listed in order and the Splits counted: one for
\* a quantifier, one for a bar, two for a group.
RECURSIVE ReadAs(_, _, _, _)
ReadAs(rest, before, literals, splits) ==
  IF rest = << >>
  THEN [ before |-> before, literals |-> literals, splits |-> splits ]
  ELSE IF Head(rest) = Ord("(")
  THEN ReadAs(Tail(rest), "open", literals, splits + 1)
  ELSE IF before \in { "start", "bar", "open" }
  THEN ReadAs(Tail(rest), "primary", Append(literals, Head(rest)), splits)
  ELSE IF Head(rest) \in QuantifierBytes
  THEN IF before = "primary"
       THEN ReadAs(Tail(rest), "quantifier", literals, splits + 1)
       ELSE ReadAs(Tail(rest), "primary", Append(literals, Head(rest)), splits)
  ELSE IF Head(rest) = Ord("|")
  THEN ReadAs(Tail(rest), "bar", literals, splits + 1)
  ELSE IF Head(rest) = Ord(")")
  THEN ReadAs(Tail(rest), "primary", literals, splits + 1)
  ELSE ReadAs(Tail(rest), "primary", Append(literals, Head(rest)), splits)

Reading(p) == ReadAs(p, "start", << >>, 0)

\* The codes of the Literal states of a heap from state q on.
RECURSIVE HeapLiterals(_, _)
HeapLiterals(heap, q) ==
  IF q > Len(heap) THEN << >>
  ELSE IF heap[q].character_code \in AnyByte
  THEN << heap[q].character_code >> \o HeapLiterals(heap, q + 1)
  ELSE HeapLiterals(heap, q + 1)

SplitStates(heap) == { q \in DOMAIN heap : heap[q].character_code = OPCODE_SPLIT }

HasParentheses(p) == \E i \in 1..Len(p) : p[i] \in { Ord("("), Ord(")") }

\* w is zero or more a followed by one *.
IsAsThenStar(w) ==
  /\ w # << >>
  /\ w[Len(w)] = Ord("*")
  /\ \A i \in 1..(Len(w) - 1) : w[i] = Ord("a")

\* C34: a *, + or ? that follows a quantifier, or that stands where a
\* primary is expected (at the start, after ( or after |), is no syntax
\* error: it is compiled as a Literal of that byte.  a** is a* followed by
\* Literal('*').
C34_StackedQuantifierIsLiteral ==
  Compiled =>
    /\ ~HasParentheses(pattern) =>
          (nfa.error = NoError <=> Reading(pattern).before # "bar")
    /\ (nfa.error = NoError /\ pattern # << >>) =>
          /\ HeapLiterals(nfa.heap, 1) = Reading(pattern).literals
          /\ Cardinality(SplitStates(nfa.heap)) = Reading(pattern).splits
    /\ pattern = Pattern(<<"a", "*", "*">>) =>
          /\ nfa.error = NoError
          /\ Accepts(nfa, input_text) <=> IsAsThenStar(input_text)

\* C34 witness: a pattern with a quantifier character after a quantifier
\* and one where a primary is expected was compiled, and a text it accepts
\* by these literals was matched.
C34_Witness ==
  /\ Returned
  /\ pattern = Pattern(<<"a", "?", "*", "+">>)
  /\ nfa.error = NoError
  /\ Reading(pattern).literals = Bytes(<<"a", "*">>)
  /\ input_text = Text(<<"*", "a", "*">>)
  /\ result = MatchInfo(TRUE, 0, 1)

----------------------------------------------------------------------------
(* The positions of the seedings of one call.  seed_positions lists, in    *)
(* order, the initial seeding at 0 and every assignment of character_index *)
(* to match_start.                                                         *)

\* C35 as stated: the seed positions of a call, the initial seed at 0
\* included, are strictly increasing: a restart is attempted only at a
\* position greater than every seed position before it.
C35_SeedPositionsStrictlyIncrease ==
  \A k \in 1..(Len(seed_positions) - 1) : seed_positions[k] < seed_positions[k + 1]

\* C35 amended: the seed positions of a call never decrease and none occurs
\* more than twice: a restart is attempted at the position of the seed
\* before it or at a greater one, never at a smaller one; match_start is
\* the last of them and is not ahead of character_index.
C35_SeedPositionsNeverDecrease ==
  pc \in {"scan", "done"} =>
    /\ seed_positions # << >>
    /\ seed_positions[1] = 0
    /\ \A k \in 1..(Len(seed_positions) - 1) : seed_positions[k] <= seed_positions[k + 1]
    /\ \A k \in 1..(Len(seed_positions) - 2) : seed_positions[k] < seed_positions[k + 2]
    /\ match_start = seed_positions[Len(seed_positions)]
    /\ match_start <= character_index

\* C35 witness: a call has seeded twice at one position and then at a
\* greater one.
C35_Witness ==
  /\ Returned
  /\ \E k \in 1..(Len(seed_positions) - 2) :
        /\ seed_positions[k] = seed_positions[k + 1]
        /\ seed_positions[k + 1] < seed_positions[k + 2]

----------------------------------------------------------------------------
(* The two variants of match_text_with_positions.                          *)

\* C36: the span-reporting variant of match_text_with_positions and the
\* profiling variant report the same match / no-match result for every
\* pattern and every text.
C36_VariantsAgreeOnFound ==
  (Returned /\ nfa.error = NoError) =>
    result.found = Profiling_match_text_with_positions(nfa, input_text).found

\* C37: span tracking changed no result: for every compiled NFA and every
\* text, match_text_with_positions(...).found, and with it the wrapper
\* match_text_with_nfa, is the result of the boolean matcher.
C37_SpanTrackingKeepsResult ==
  (Returned /\ nfa.error = NoError) =>
    /\ result.found <=> Boolean_match_text_with_nfa(nfa, input_text) = 1
    /\ match_text_with_nfa(nfa, input_text) = Boolean_match_text_with_nfa(nfa, input_text)

\* C37 witness: both matchers have found a match that starts after a
\* restart, and both have found one of an anchored pattern.
C37_Witness ==
  /\ Returned
  /\ nfa.error = NoError
  /\ result.found
  /\ Boolean_match_text_with_nfa(nfa, input_text) = 1
  /\ \/ result.start_pos > 0 /\ Len(seed_positions) > 2
     \/ is_anchored_at_start(nfa) /\ result.end_pos > 1

====
